---- MODULE Spec2Model ----
(***************************************************************************)
(* The reconciliation engine of gitbook-to-mintlify: the path normalizers, *)
(* the tree merger with its structural validation passes, the slug         *)
(* disambiguator, the link-map builder and the asset classification; and   *)
(* the asset inventory it classifies; and two utilities of the pipeline    *)
(* around it, the block tokenizer and fetchWithRetry.                      *)
(* Paths and labels are strings; every string function below is computed   *)
(* character by character, the way the regular expressions of the source   *)
(* compute it.                                                             *)
(***************************************************************************)
EXTENDS Integers, Sequences, FiniteSets, TLC

VARIABLES
  pc,             \* position of the run
  apiStructure,   \* mergeNavTrees: the authoritative structure, or NoApi
  summaryTabs,    \* mergeNavTrees: the locally parsed tabs
  config,         \* mergeNavTrees: the migration configuration
  mergeResult,    \* cli.ts mergeResult: what mergeNavTrees returned
  tabs,           \* cli.ts reconciledTabs
  discrepancies,  \* cli.ts discrepancies
  redirects,      \* cli.ts disambiguationRedirects
  linkMap,        \* cli.ts linkMap
  assets,         \* categorizeAssets: the inventory handed in
  categorized,    \* categorizeAssets: the four buckets
  normKind,       \* which path normalizer is applied
  normTrace,      \* a string followed by its successive normalizations
  tokInput,       \* tokenize: input
  tokStrict,      \* tokenize: strict
  tokResult,      \* tokenize: what the call returned or threw
  fetchPc,        \* fetchWithRetry: position of the call
  maxRetries,     \* fetchWithRetry: config.maxRetries
  attempt,        \* fetchWithRetry: attempt
  lastError,      \* fetchWithRetry: lastError
  lastResponse,   \* fetchWithRetry: lastResponse
  fetchResult,    \* fetchWithRetry: what the call returned or threw
  outcomes,       \* fetchWithRetry: the outcomes of the fetch calls so far
  sleeps,         \* fetchWithRetry: the attempts after which it slept
  apiFiles,       \* buildAssetInventory: the files of the manifest
  parsedPages,    \* buildAssetInventory: the parsed pages
  repoFiles,      \* buildAssetInventory: the set scanGitBookAssets returned
  crawlPc,        \* crawlSite: position of the fetch loop
  crawlOptions,   \* crawlSite: options
  site,           \* crawlSite: the hrefs of the pages of the crawled site
  visited,        \* crawlSite: visited, in insertion order
  queue,          \* crawlSite: queue
  batch,          \* crawlSite: batch
  settled,        \* crawlSite: the state of each fetchPage of the batch
  fetchedUrls,    \* crawlSite: the URLs handed to fetchPage so far
  crawledPages,   \* crawlSite: the URLs of pages
  crawlErrors     \* crawlSite: the URLs whose fetch was rejected

vars == <<pc, apiStructure, summaryTabs, config, mergeResult, tabs,
          discrepancies, redirects, linkMap, assets, categorized, normKind,
          normTrace, tokInput, tokStrict, tokResult, fetchPc, maxRetries,
          attempt, lastError, lastResponse, fetchResult, outcomes, sleeps,
          apiFiles, parsedPages, repoFiles, crawlPc, crawlOptions, site,
          visited, queue, batch, settled, fetchedUrls, crawledPages,
          crawlErrors>>

inputVars == <<apiStructure, summaryTabs, config>>
navVars == <<apiStructure, summaryTabs, config, mergeResult, tabs,
             discrepancies, redirects, linkMap>>
assetVars == <<assets, categorized>>
normVars == <<normKind, normTrace>>
tokVars == <<tokInput, tokStrict, tokResult>>
fetchVars == <<fetchPc, maxRetries, attempt, lastError, lastResponse,
               fetchResult, outcomes, sleeps>>
invVars == <<apiFiles, parsedPages, repoFiles>>
crawlVars == <<crawlPc, crawlOptions, site, visited, queue, batch, settled,
               fetchedUrls, crawledPages, crawlErrors>>
utilVars == <<tokVars, fetchVars, invVars, crawlVars>>

-----------------------------------------------------------------------------
(* Bounds of the model.                                                    *)

\* longest string handed to a path normalizer
MaxLen == 4

\* longest asset list handed to categorizeAssets
MaxAssets == 2

\* most pages of a top-level group of an input tab
MaxPages == 2

\* most tabs of an input tab list
MaxTabs == 3

-----------------------------------------------------------------------------
(* The values of the variables that a run does not use.                    *)

\* apiStructure when no authoritative structure is supplied (null)
NoApi == [type |-> "none"]

\* the default configuration: flattening on, no tab configured
NoConfig == [flattenSingleChildGroups |-> TRUE, tabs |-> <<>>]

NoMergeResult == [tabs |-> <<>>, discrepancies |-> <<>>]

\* the four empty buckets categorizeAssets starts from
NoBuckets ==
  [toDownload |-> <<>>, toCopy |-> <<>>, orphaned |-> <<>>, missing |-> <<>>]

-----------------------------------------------------------------------------
(* Strings.                                                                *)

Char(s, i) == SubSeq(s, i, i)

Last(s) == s[Len(s)]

StartsWith(s, p) == Len(p) <= Len(s) /\ SubSeq(s, 1, Len(p)) = p

EndsWith(s, p) == Len(p) <= Len(s) /\ SubSeq(s, Len(s) - Len(p) + 1, Len(s)) = p

UpperChars == "ABCDEFGHIJKLMNOPQRSTUVWXYZ"
LowerChars == "abcdefghijklmnopqrstuvwxyz"

UpperSet == {Char(UpperChars, i) : i \in 1..Len(UpperChars)}

\* the lower-case letter of every upper-case letter
LowerOf ==
  [c \in UpperSet |->
     Char(LowerChars, CHOOSE i \in 1..Len(UpperChars) : Char(UpperChars, i) = c)]

LowerChar(c) == IF c \in UpperSet THEN LowerOf[c] ELSE c

RECURSIVE ToLowerCase(_)
\* String.prototype.toLowerCase
ToLowerCase(s) ==
  IF s = "" THEN ""
  ELSE LowerChar(Char(s, 1)) \o ToLowerCase(SubSeq(s, 2, Len(s)))

RECURSIVE TrimLeading(_, _)
\* s.replace(/^c+/, '')
TrimLeading(s, c) ==
  IF s # "" /\ Char(s, 1) = c THEN TrimLeading(SubSeq(s, 2, Len(s)), c) ELSE s

RECURSIVE TrimTrailing(_, _)
\* s.replace(/c+$/, '')
TrimTrailing(s, c) ==
  IF s # "" /\ Char(s, Len(s)) = c
  THEN TrimTrailing(SubSeq(s, 1, Len(s) - 1), c) ELSE s

RECURSIVE ReplaceChar(_, _, _)
\* s.replace(/a/g, b) for single characters a and b
ReplaceChar(s, a, b) ==
  IF s = "" THEN ""
  ELSE (IF Char(s, 1) = a THEN b ELSE Char(s, 1))
       \o ReplaceChar(SubSeq(s, 2, Len(s)), a, b)

RECURSIVE CollapseSlashes(_)
\* s.replace(/\/+/g, '/')
CollapseSlashes(s) ==
  IF s = "" THEN ""
  ELSE IF Char(s, 1) = "/"
       THEN "/" \o CollapseSlashes(TrimLeading(s, "/"))
       ELSE Char(s, 1) \o CollapseSlashes(SubSeq(s, 2, Len(s)))

-----------------------------------------------------------------------------
(* decodeURIComponent, for the escapes a string over Alphabet can hold.    *)

HexDigits == "0123456789abcdef"

IsHex(c) == c # "" /\ \E i \in 1..16 : Char(HexDigits, i) = LowerChar(c)

HexVal(c) == (CHOOSE i \in 1..16 : Char(HexDigits, i) = LowerChar(c)) - 1

\* The characters of code 32 to 126. A TLA+ string cannot hold the grave
\* accent (code 96): a space stands in its place, and no string over Alphabet
\* holds the escape %60.
AsciiPrintable ==
  " !\"#$%&'()*+,-./0123456789:;<=>?@ABCDEFGHIJKLMNOPQRSTUVWXYZ[\\]^_ abcdefghijklmnopqrstuvwxyz{|}~"

FirstPrintable == 32
LastPrintable == 126

\* An escape %XY decodes alone only when it is a printable 7-bit character
\* here: a byte of 0x80 and more needs a well-formed multi-byte UTF-8
\* sequence of escapes around it.
DecodableAlone(code) == code >= FirstPrintable /\ code <= LastPrintable

RECURSIVE WellFormedEscapes(_)
\* whether decodeURIComponent(s) returns (TRUE) or throws URIError (FALSE)
WellFormedEscapes(s) ==
  IF s = "" THEN TRUE
  ELSE IF Char(s, 1) # "%" THEN WellFormedEscapes(SubSeq(s, 2, Len(s)))
  ELSE /\ Len(s) >= 3
       /\ IsHex(Char(s, 2))
       /\ IsHex(Char(s, 3))
       /\ DecodableAlone(16 * HexVal(Char(s, 2)) + HexVal(Char(s, 3)))
       /\ WellFormedEscapes(SubSeq(s, 4, Len(s)))

RECURSIVE DecodeEscapes(_)
\* the value of decodeURIComponent(s) when it returns
DecodeEscapes(s) ==
  IF s = "" THEN ""
  ELSE IF Char(s, 1) # "%"
       THEN Char(s, 1) \o DecodeEscapes(SubSeq(s, 2, Len(s)))
       ELSE Char(AsciiPrintable,
                 16 * HexVal(Char(s, 2)) + HexVal(Char(s, 3)) - FirstPrintable + 1)
            \o DecodeEscapes(SubSeq(s, 4, Len(s)))

-----------------------------------------------------------------------------
(* The path normalizers.                                                   *)

\* asset-inventory.ts normalizePath
AssetNormalizePath(p) ==
  LET decoded == IF WellFormedEscapes(p) THEN DecodeEscapes(p) ELSE p
      slashed == ReplaceChar(decoded, "\\", "/")
      collapsed == CollapseSlashes(slashed)
      undotted == IF StartsWith(collapsed, "./")
                  THEN SubSeq(collapsed, 3, Len(collapsed)) ELSE collapsed
  IN  TrimTrailing(TrimLeading(undotted, "/"), "/")

\* the tree merger's normalizePath
TreeNormalizePath(p) == ToLowerCase(TrimTrailing(TrimLeading(p, "/"), "/"))

-----------------------------------------------------------------------------
(* The tree merger and its structural validation passes.                   *)
(* A tab is [label, slug, sourceFile, groups], a group [label, pages,      *)
(* groups], a page [label, path] with, after disambiguation, an outputPath *)
(* as well.  A group without sub-groups has groups = <<>>: the source      *)
(* treats an absent groups field and an empty one alike.                   *)

Range(seq) == {seq[i] : i \in 1..Len(seq)}

\* Set.prototype.add on a set kept in insertion order
SetAdd(seq, x) == IF x \in Range(seq) THEN seq ELSE Append(seq, x)

RECURSIVE AddSpacePaths(_, _)
\* for (const space of spaces) paths.add(space.path)
AddSpacePaths(paths, spaces) ==
  IF spaces = <<>> THEN paths
  ELSE AddSpacePaths(SetAdd(paths, Head(spaces).path), Tail(spaces))

RECURSIVE AddSectionPaths(_, _)
\* for (const section of sections) { paths.add(section.path); ... }
AddSectionPaths(paths, sections) ==
  IF sections = <<>> THEN paths
  ELSE AddSectionPaths(
         AddSpacePaths(SetAdd(paths, Head(sections).path), Head(sections).siteSpaces),
         Tail(sections))

\* collectApiPaths: the declared paths, in insertion order
CollectApiPaths(api) ==
  IF api.type = "sections"
  THEN AddSectionPaths(<<>>, api.structure)
  ELSE AddSpacePaths(<<>>, api.structure)

\* ApiMatches with the extension left out of the comparison
ApiMatchesIgnoringExtension(apiPaths, page) ==
  LET Bare(p) == IF EndsWith(p, ".md") THEN SubSeq(p, 1, Len(p) - 3) ELSE p
  IN  SelectSeq(apiPaths,
                LAMBDA q : Bare(TreeNormalizePath(q)) = Bare(TreeNormalizePath(page.path)))

\* the authoritative paths whose normalization is that of the page's path
ApiMatches(apiPaths, page) ==
  SelectSeq(apiPaths, LAMBDA q : TreeNormalizePath(q) = TreeNormalizePath(page.path))

\* detectOrphansInGroup: what one page pushes
PageOrphanLog(page, apiPaths) ==
  IF ApiMatches(apiPaths, page) = <<>>
  THEN <<[type |-> "orphan",
          path |-> page.path,
          details |-> "Page \"" \o page.label
                      \o "\" found in SUMMARY.md but not in API structure"]>>
  ELSE <<>>

\* reconcileGroups: what one page pushes (apiMatch is the first match, and an
\* empty apiMatch is falsy)
PageMismatchLog(page, apiPaths) ==
  LET matches == ApiMatches(apiPaths, page)
  IN  IF matches # <<>> /\ Head(matches) # "" /\ Head(matches) # page.path
      THEN <<[type |-> "label_mismatch",
              path |-> page.path,
              details |-> "SUMMARY label \"" \o page.label
                          \o "\" differs from API path \"" \o Head(matches) \o "\""]>>
      ELSE <<>>

RECURSIVE MismatchLogOfPages(_, _)
\* reconcileGroups: the pushes of group.pages.map, in order
MismatchLogOfPages(pages, apiPaths) ==
  IF pages = <<>> THEN <<>>
  ELSE PageMismatchLog(Head(pages), apiPaths)
       \o MismatchLogOfPages(Tail(pages), apiPaths)

RECURSIVE ReconcileLog(_, _)
\* reconcileGroups: the discrepancies pushed for a group list, each group's
\* pages first, then its sub-groups
ReconcileLog(groups, apiPaths) ==
  IF groups = <<>> THEN <<>>
  ELSE MismatchLogOfPages(Head(groups).pages, apiPaths)
       \o ReconcileLog(Head(groups).groups, apiPaths)
       \o ReconcileLog(Tail(groups), apiPaths)

RECURSIVE OrphanLogOfPages(_, _)
\* detectOrphansInGroup: the pushes of the loop over group.pages
OrphanLogOfPages(pages, apiPaths) ==
  IF pages = <<>> THEN <<>>
  ELSE PageOrphanLog(Head(pages), apiPaths)
       \o OrphanLogOfPages(Tail(pages), apiPaths)

RECURSIVE DetectOrphansLog(_, _)
\* detectOrphansInGroup over a group list: each group's pages, then its
\* sub-groups
DetectOrphansLog(groups, apiPaths) ==
  IF groups = <<>> THEN <<>>
  ELSE OrphanLogOfPages(Head(groups).pages, apiPaths)
       \o DetectOrphansLog(Head(groups).groups, apiPaths)
       \o DetectOrphansLog(Tail(groups), apiPaths)

RECURSIVE ReconcileGroups(_)
\* reconcileGroups: the groups it returns (label, copied pages, sub-groups)
ReconcileGroups(groups) ==
  [i \in 1..Len(groups) |->
     [label |-> groups[i].label,
      pages |-> [j \in 1..Len(groups[i].pages) |-> groups[i].pages[j]],
      groups |-> ReconcileGroups(groups[i].groups)]]

\* mergeWithApi: the label of the tab configuration whose slug is the tab's
ConfiguredLabel(cfg, tab) ==
  LET found == SelectSeq(cfg.tabs, LAMBDA c : c.slug = tab.slug)
  IN  IF found # <<>> THEN Head(found).label ELSE tab.label

RECURSIVE ReconcileLogOfTabs(_, _)
\* mergeWithApi: the pushes of reconcileGroups, tab after tab
ReconcileLogOfTabs(tabList, apiPaths) ==
  IF tabList = <<>> THEN <<>>
  ELSE ReconcileLog(Head(tabList).groups, apiPaths)
       \o ReconcileLogOfTabs(Tail(tabList), apiPaths)

RECURSIVE DetectOrphans(_, _)
\* detectOrphans
DetectOrphans(tabList, apiPaths) ==
  IF tabList = <<>> THEN <<>>
  ELSE DetectOrphansLog(Head(tabList).groups, apiPaths)
       \o DetectOrphans(Tail(tabList), apiPaths)

\* mergeWithApi: the merged tabs
MergeWithApiTabs(api, tabList, cfg) ==
  [i \in 1..Len(tabList) |->
     [label |-> ConfiguredLabel(cfg, tabList[i]),
      slug |-> tabList[i].slug,
      sourceFile |-> tabList[i].sourceFile,
      groups |-> ReconcileGroups(tabList[i].groups)]]

\* mergeWithApi: the discrepancies pushed, reconcileGroups over every tab
\* first, detectOrphans over every tab after
MergeWithApiLog(api, tabList) ==
  ReconcileLogOfTabs(tabList, CollectApiPaths(api))
  \o DetectOrphans(tabList, CollectApiPaths(api))

RECURSIVE PruneEmptyGroupsShallow(_)
\* PruneEmptyGroups with hasSubGroups computed on the sub-groups before
\* their own pruning
PruneEmptyGroupsShallow(groups) ==
  IF groups = <<>> THEN <<>>
  ELSE LET group == Head(groups)
           subGroups == PruneEmptyGroupsShallow(group.groups)
           hasPages == Len(group.pages) > 0
           hasSubGroups == Len(group.groups) > 0
       IN  IF ~hasPages /\ ~hasSubGroups
           THEN PruneEmptyGroupsShallow(Tail(groups))
           ELSE <<[group EXCEPT !.groups = subGroups]>>
                \o PruneEmptyGroupsShallow(Tail(groups))

RECURSIVE PruneEmptyGroups(_)
\* pruneEmptyGroups
PruneEmptyGroups(groups) ==
  IF groups = <<>> THEN <<>>
  ELSE LET group == Head(groups)
           subGroups == PruneEmptyGroups(group.groups)
           hasPages == Len(group.pages) > 0
           hasSubGroups == Len(subGroups) > 0
       IN  IF ~hasPages /\ ~hasSubGroups
           THEN PruneEmptyGroups(Tail(groups))
           ELSE <<[group EXCEPT !.groups = subGroups]>>
                \o PruneEmptyGroups(Tail(groups))

\* removeEmptyGroups
RemoveEmptyGroups(tabList) ==
  [i \in 1..Len(tabList) |->
     [tabList[i] EXCEPT !.groups = PruneEmptyGroups(tabList[i].groups)]]

\* deduplicateTabGroupNames: the single group is rebuilt with its own label
DeduplicateTabGroupNames(tabList) ==
  [i \in 1..Len(tabList) |->
     IF /\ Len(tabList[i].groups) = 1
        /\ ToLowerCase(tabList[i].groups[1].label) = ToLowerCase(tabList[i].label)
     THEN [tabList[i] EXCEPT !.groups =
             <<[tabList[i].groups[1] EXCEPT !.label = tabList[i].groups[1].label]>>]
     ELSE tabList[i]]

RECURSIVE FlattenGroupsOutermostFirst(_)
\* FlattenGroups deciding on the sub-groups as they were handed in and
\* lifting the only one before it is flattened itself
FlattenGroupsOutermostFirst(groups) ==
  [i \in 1..Len(groups) |->
     LET group == groups[i]
     IN  IF Len(group.pages) = 0 /\ Len(group.groups) = 1
         THEN [label |-> group.groups[1].label,
               pages |-> group.groups[1].pages,
               groups |-> group.groups[1].groups]
         ELSE [group EXCEPT !.groups = FlattenGroupsOutermostFirst(group.groups)]]

RECURSIVE FlattenGroups(_)
\* flattenGroups
FlattenGroups(groups) ==
  [i \in 1..Len(groups) |->
     LET group == groups[i]
         subGroups == FlattenGroups(group.groups)
     IN  IF Len(group.pages) = 0 /\ Len(subGroups) = 1
         THEN [label |-> subGroups[1].label,
               pages |-> subGroups[1].pages,
               groups |-> subGroups[1].groups]
         ELSE [group EXCEPT !.groups = subGroups]]

\* flattenSingleChildGroups
FlattenSingleChildGroups(tabList) ==
  [i \in 1..Len(tabList) |->
     [tabList[i] EXCEPT !.groups = FlattenGroups(tabList[i].groups)]]

RECURSIVE CountPages(_)
\* countPages
CountPages(groups) ==
  IF groups = <<>> THEN 0
  ELSE Len(Head(groups).pages) + CountPages(Head(groups).groups)
       + CountPages(Tail(groups))

RECURSIVE FlagTabsOfOnePageAtMost(_)
\* FlagSinglePageTabs flagging the tabs without page too
FlagTabsOfOnePageAtMost(tabList) ==
  IF tabList = <<>> THEN <<>>
  ELSE (IF CountPages(Head(tabList).groups) <= 1
        THEN <<[type |-> "orphan",
                path |-> Head(tabList).slug,
                details |-> "Tab \"" \o Head(tabList).label
                            \o "\" has only one page -- flag for merge"]>>
        ELSE <<>>)
       \o FlagTabsOfOnePageAtMost(Tail(tabList))

RECURSIVE FlagSinglePageTabs(_)
\* flagSinglePageTabs: the discrepancies pushed
FlagSinglePageTabs(tabList) ==
  IF tabList = <<>> THEN <<>>
  ELSE (IF CountPages(Head(tabList).groups) = 1
        THEN <<[type |-> "orphan",
                path |-> Head(tabList).slug,
                details |-> "Tab \"" \o Head(tabList).label
                            \o "\" has only one page -- flag for merge"]>>
        ELSE <<>>)
       \o FlagSinglePageTabs(Tail(tabList))

\* CandidateTabs with the local tabs reconciled whether or not a structure
\* is supplied
CandidateTabsAlwaysReconciled(api, tabList, cfg) ==
  MergeWithApiTabs(api, tabList, cfg)

\* mergeNavTrees: the candidate tree handed to the validation passes
CandidateTabs(api, tabList, cfg) ==
  IF api # NoApi THEN MergeWithApiTabs(api, tabList, cfg) ELSE tabList

\* mergeNavTrees: the tabs returned
MergedTabs(api, tabList, cfg) ==
  LET pruned == RemoveEmptyGroups(CandidateTabs(api, tabList, cfg))
      deduplicated == DeduplicateTabGroupNames(pruned)
  IN  IF cfg.flattenSingleChildGroups
      THEN FlattenSingleChildGroups(deduplicated)
      ELSE deduplicated

\* mergeNavTrees: the discrepancies returned
MergedDiscrepancies(api, tabList, cfg) ==
  (IF api # NoApi THEN MergeWithApiLog(api, tabList) ELSE <<>>)
  \o FlagSinglePageTabs(MergedTabs(api, tabList, cfg))

-----------------------------------------------------------------------------
(* The slug disambiguator.                                                 *)

\* stripMdExtension: p.replace(/\.mdx?$/, '')
StripMdExtension(p) ==
  IF EndsWith(p, ".md") THEN SubSeq(p, 1, Len(p) - 3)
  ELSE IF EndsWith(p, ".mdx") THEN SubSeq(p, 1, Len(p) - 4)
  ELSE p

\* ensureLeadingSlash
EnsureLeadingSlash(p) == IF StartsWith(p, "/") THEN p ELSE "/" \o p

\* buildOverviewSlug
BuildOverviewSlug(parentPath) ==
  TrimTrailing(StripMdExtension(parentPath), "/") \o "/overview"

\* the prefix hasNestedContent and extractChildPages compare with
NestingPrefix(path) == ToLowerCase(TrimTrailing(StripMdExtension(path), "/"))

\* the test both apply to a page p
IsNestedUnder(p, prefix) ==
  StartsWith(ToLowerCase(StripMdExtension(p.path)), prefix \o "/")

\* hasNestedContent
HasNestedContent(page, subGroups) ==
  \E i \in 1..Len(subGroups) :
    \E j \in 1..Len(subGroups[i].pages) :
      IsNestedUnder(subGroups[i].pages[j], NestingPrefix(page.path))

\* extractChildPages
ExtractChildPages(parentPath, pages) ==
  SelectSeq(pages, LAMBDA p : IsNestedUnder(p, NestingPrefix(parentPath)))

\* newSubGroups.findIndex(g => g.label.toLowerCase() === page.label.toLowerCase()),
\* 0 standing for -1
ChildGroupIdx(page, subGroups) ==
  LET hits == {i \in 1..Len(subGroups) :
                 ToLowerCase(subGroups[i].label) = ToLowerCase(page.label)}
  IN  IF hits = {} THEN 0 ELSE CHOOSE i \in hits : \A k \in hits : i <= k

\* the overview page entry built for a parent page
OverviewPage(page) ==
  [label |-> "Overview",
   path |-> BuildOverviewSlug(page.path),
   outputPath |-> BuildOverviewSlug(page.path)]

\* the redirect pushed for a parent page
OverviewRedirect(page) ==
  [source |-> EnsureLeadingSlash(page.path),
   destination |-> EnsureLeadingSlash(BuildOverviewSlug(page.path))]

\* DisambiguatePage with the overview page pushed after the sub-group's
\* pages instead of before them
DisambiguatePageOverviewLast(group, page, st) ==
  LET childGroupIdx == ChildGroupIdx(page, st.newSubGroups) IN
  IF childGroupIdx # 0
  THEN LET childGroup == st.newSubGroups[childGroupIdx]
           updatedSubGroup == [label |-> childGroup.label,
                               pages |-> childGroup.pages \o <<OverviewPage(page)>>,
                               groups |-> childGroup.groups]
       IN  [st EXCEPT !.newSubGroups[childGroupIdx] = updatedSubGroup,
                      !.redirects = Append(@, OverviewRedirect(page))]
  ELSE IF HasNestedContent(page, st.newSubGroups)
  THEN LET childPages == ExtractChildPages(page.path, group.pages)
       IN  IF Len(childPages) > 0
           THEN [st EXCEPT !.newSubGroups =
                             Append(@, [label |-> page.label,
                                        pages |-> <<OverviewPage(page)>> \o childPages,
                                        groups |-> <<>>]),
                           !.redirects = Append(@, OverviewRedirect(page))]
           ELSE [st EXCEPT !.newPages = Append(@, page)]
  ELSE [st EXCEPT !.newPages = Append(@, page)]

\* DisambiguatePage without the else of the fallback rule: a page with
\* nested content in the sub-groups and no child page beside it is kept
\* nowhere
DisambiguatePageNoKeep(group, page, st) ==
  LET childGroupIdx == ChildGroupIdx(page, st.newSubGroups) IN
  IF childGroupIdx # 0
  THEN LET childGroup == st.newSubGroups[childGroupIdx]
           updatedSubGroup == [label |-> childGroup.label,
                               pages |-> <<OverviewPage(page)>> \o childGroup.pages,
                               groups |-> childGroup.groups]
       IN  [st EXCEPT !.newSubGroups[childGroupIdx] = updatedSubGroup,
                      !.redirects = Append(@, OverviewRedirect(page))]
  ELSE IF HasNestedContent(page, st.newSubGroups)
  THEN LET childPages == ExtractChildPages(page.path, group.pages)
       IN  IF Len(childPages) > 0
           THEN [st EXCEPT !.newSubGroups =
                             Append(@, [label |-> page.label,
                                        pages |-> <<OverviewPage(page)>> \o childPages,
                                        groups |-> <<>>]),
                           !.redirects = Append(@, OverviewRedirect(page))]
           ELSE st
  ELSE [st EXCEPT !.newPages = Append(@, page)]

\* disambiguateGroups: one turn of the loop over group.pages; st holds
\* newPages, newSubGroups and the redirects pushed so far
DisambiguatePage(group, page, st) ==
  LET childGroupIdx == ChildGroupIdx(page, st.newSubGroups) IN
  IF childGroupIdx # 0
  THEN LET childGroup == st.newSubGroups[childGroupIdx]
           updatedSubGroup == [label |-> childGroup.label,
                               pages |-> <<OverviewPage(page)>> \o childGroup.pages,
                               groups |-> childGroup.groups]
       IN  [st EXCEPT !.newSubGroups[childGroupIdx] = updatedSubGroup,
                      !.redirects = Append(@, OverviewRedirect(page))]
  ELSE IF HasNestedContent(page, st.newSubGroups)
  THEN LET childPages == ExtractChildPages(page.path, group.pages)
       IN  IF Len(childPages) > 0
           THEN [st EXCEPT !.newSubGroups =
                             Append(@, [label |-> page.label,
                                        pages |-> <<OverviewPage(page)>> \o childPages,
                                        groups |-> <<>>]),
                           !.redirects = Append(@, OverviewRedirect(page))]
           ELSE [st EXCEPT !.newPages = Append(@, page)]
  ELSE [st EXCEPT !.newPages = Append(@, page)]

RECURSIVE DisambiguatePages(_, _, _)
\* disambiguateGroups: the loop over group.pages, from page i on
DisambiguatePages(group, i, st) ==
  IF i > Len(group.pages) THEN st
  ELSE DisambiguatePages(group, i + 1, DisambiguatePage(group, group.pages[i], st))

RECURSIVE DisambiguateGroups(_)
\* disambiguateGroups: [groups, redirects], the groups returned and the
\* redirects pushed, each group's own before those of its sub-groups
DisambiguateGroups(groups) ==
  IF groups = <<>> THEN [groups |-> <<>>, redirects |-> <<>>]
  ELSE LET group == Head(groups)
           st == DisambiguatePages(group, 1,
                   [newPages |-> <<>>, newSubGroups |-> group.groups,
                    redirects |-> <<>>])
           sub == DisambiguateGroups(st.newSubGroups)
           rest == DisambiguateGroups(Tail(groups))
       IN  [groups |-> <<[label |-> group.label,
                          pages |-> st.newPages,
                          groups |-> sub.groups]>> \o rest.groups,
            redirects |-> st.redirects \o sub.redirects \o rest.redirects]

RECURSIVE DisambiguateSlugs(_)
\* disambiguateSlugs: [tabs, redirects]
DisambiguateSlugs(tabList) ==
  IF tabList = <<>> THEN [tabs |-> <<>>, redirects |-> <<>>]
  ELSE LET head == DisambiguateGroups(Head(tabList).groups)
           rest == DisambiguateSlugs(Tail(tabList))
       IN  [tabs |-> <<[Head(tabList) EXCEPT !.groups = head.groups]>> \o rest.tabs,
            redirects |-> head.redirects \o rest.redirects]

-----------------------------------------------------------------------------
(* The link-map builder.                                                   *)

\* Map.prototype.set
MapSet(map, key, value) ==
  [k \in DOMAIN map \cup {key} |-> IF k = key THEN value ELSE map[k]]

\* if (!map.has(key)) map.set(key, value)
MapSetIfAbsent(map, key, value) ==
  IF key \in DOMAIN map THEN map ELSE MapSet(map, key, value)

\* the empty link map
EmptyMap == [k \in {} |-> ""]

\* page.outputPath ?? page.path
OutputPathOf(page) ==
  IF "outputPath" \in DOMAIN page THEN page.outputPath ELSE page.path

\* BuildNewPath without the test for a path that starts with the prefix
BuildNewPathAlwaysPrefixed(outputPath, sectionPrefix) ==
  LET cleaned == TrimLeading(StripMdExtension(outputPath), "/")
      prefixLower == TrimLeading(ToLowerCase(sectionPrefix), "/")
  IN  IF prefixLower # ""
      THEN "/" \o TrimLeading(sectionPrefix, "/") \o "/" \o cleaned
      ELSE "/" \o cleaned

\* buildNewPath
BuildNewPath(outputPath, sectionPrefix) ==
  LET cleaned == TrimLeading(StripMdExtension(outputPath), "/")
      prefixLower == TrimLeading(ToLowerCase(sectionPrefix), "/")
  IN  IF prefixLower # "" /\ ~StartsWith(ToLowerCase(cleaned), prefixLower \o "/")
      THEN "/" \o TrimLeading(sectionPrefix, "/") \o "/" \o cleaned
      ELSE "/" \o cleaned

\* AddPageMappings without the registration of the path as it is
AddPageMappingsNoVerbatim(page, sectionPrefix, map) ==
  LET newPath == BuildNewPath(OutputPathOf(page), sectionPrefix)
      stripped == StripMdExtension(page.path)
      withSlash == "/" \o TrimLeading(page.path, "/")
      strippedWithSlash == "/" \o TrimLeading(stripped, "/")
      m2 == IF stripped # page.path THEN MapSet(map, stripped, newPath) ELSE map
      m3 == MapSetIfAbsent(m2, withSlash, newPath)
  IN  MapSetIfAbsent(m3, strippedWithSlash, newPath)

\* addPageMappings
AddPageMappings(page, sectionPrefix, map) ==
  LET newPath == BuildNewPath(OutputPathOf(page), sectionPrefix)
      stripped == StripMdExtension(page.path)
      withSlash == "/" \o TrimLeading(page.path, "/")
      strippedWithSlash == "/" \o TrimLeading(stripped, "/")
      m1 == MapSet(map, page.path, newPath)
      m2 == IF stripped # page.path THEN MapSet(m1, stripped, newPath) ELSE m1
      m3 == MapSetIfAbsent(m2, withSlash, newPath)
  IN  MapSetIfAbsent(m3, strippedWithSlash, newPath)

RECURSIVE AddPagesMappings(_, _, _)
\* collectPageMappings: the loop over group.pages
AddPagesMappings(pages, sectionPrefix, map) ==
  IF pages = <<>> THEN map
  ELSE AddPagesMappings(Tail(pages), sectionPrefix,
                        AddPageMappings(Head(pages), sectionPrefix, map))

RECURSIVE CollectPageMappings(_, _, _)
\* collectPageMappings over a group list: each group's pages, then its
\* sub-groups
CollectPageMappings(groups, sectionPrefix, map) ==
  IF groups = <<>> THEN map
  ELSE CollectPageMappings(Tail(groups), sectionPrefix,
         CollectPageMappings(Head(groups).groups, sectionPrefix,
           AddPagesMappings(Head(groups).pages, sectionPrefix, map)))

\* cli.ts: sectionPaths maps every tab slug to itself, so
\* sectionPaths.get(tab.slug) ?? tab.slug is the slug
SectionPrefix(tab) == tab.slug

RECURSIVE BuildLinkMapFrom(_, _)
\* buildLinkMap: the loop over tabs
BuildLinkMapFrom(tabList, map) ==
  IF tabList = <<>> THEN map
  ELSE BuildLinkMapFrom(Tail(tabList),
         CollectPageMappings(Head(tabList).groups, SectionPrefix(Head(tabList)), map))

\* buildLinkMap
BuildLinkMap(tabList) == BuildLinkMapFrom(tabList, EmptyMap)

-----------------------------------------------------------------------------
(* The output: the navigation of docs.json and the converted pages.        *)

\* mapNavGroup: the reference of one page, (outputPath ?? path) without its
\* .mdx or .md extension
PageReference(page) ==
  LET raw == OutputPathOf(page)
  IN  IF EndsWith(raw, ".mdx") THEN SubSeq(raw, 1, Len(raw) - 4)
      ELSE IF EndsWith(raw, ".md") THEN SubSeq(raw, 1, Len(raw) - 3)
      ELSE raw

RECURSIVE MapNavGroup(_)
\* mapNavGroup: the group's page references, then its mapped sub-groups (a
\* reference is the record [page |-> reference])
MapNavGroup(group) ==
  [group |-> group.label,
   pages |-> [i \in 1..Len(group.pages) |-> [page |-> PageReference(group.pages[i])]]
             \o [i \in 1..Len(group.groups) |-> MapNavGroup(group.groups[i])]]

\* buildNavigation
BuildNavigation(tabList) ==
  [i \in 1..Len(tabList) |->
     [tab |-> tabList[i].label,
      groups |-> [j \in 1..Len(tabList[i].groups) |->
                    MapNavGroup(tabList[i].groups[j])]]]

\* cli.ts: the output path of a converted page
ConvertedOutputPath(path) ==
  LET noMd == IF EndsWith(path, ".md") THEN SubSeq(path, 1, Len(path) - 3)
              ELSE path
      noMdx == IF EndsWith(noMd, ".mdx") THEN SubSeq(noMd, 1, Len(noMd) - 4)
               ELSE noMd
  IN  TrimLeading(noMdx, "/") \o ".mdx"

\* cli.ts: the output paths of convertedPages, one per parsed page
ConvertedOutputPaths(pages) ==
  [i \in 1..Len(pages) |-> ConvertedOutputPath(pages[i].path)]

-----------------------------------------------------------------------------
(* The asset inventory: target paths and classification.                   *)

InChars(c, chars) == \E i \in 1..Len(chars) : Char(chars, i) = c

RECURSIVE Basename(_)
\* sourcePath.split('/').pop()
Basename(s) ==
  IF \E i \in 1..Len(s) : Char(s, i) = "/"
  THEN Basename(SubSeq(s, (CHOOSE i \in 1..Len(s) : Char(s, i) = "/") + 1, Len(s)))
  ELSE s

RECURSIVE TrimLeadingIn(_, _)
\* s with its longest prefix of characters of chars removed
TrimLeadingIn(s, chars) ==
  IF s # "" /\ InChars(Char(s, 1), chars)
  THEN TrimLeadingIn(SubSeq(s, 2, Len(s)), chars) ELSE s

RECURSIVE ReplaceRuns(_, _, _)
\* s.replace(/[chars]+/g, by)
ReplaceRuns(s, chars, by) ==
  IF s = "" THEN ""
  ELSE IF InChars(Char(s, 1), chars)
       THEN by \o ReplaceRuns(TrimLeadingIn(s, chars), chars, by)
       ELSE Char(s, 1) \o ReplaceRuns(SubSeq(s, 2, Len(s)), chars, by)

RECURSIVE KeepChars(_, _)
\* s.replace(/[^chars]/g, '')
KeepChars(s, chars) ==
  IF s = "" THEN ""
  ELSE (IF InChars(Char(s, 1), chars) THEN Char(s, 1) ELSE "")
       \o KeepChars(SubSeq(s, 2, Len(s)), chars)

\* the characters of [%\s] a source path of the model can hold
PercentOrSpace == "% "

\* the characters of [a-zA-Z0-9._-]
TargetChars == UpperChars \o LowerChars \o "0123456789._-"

\* asset-inventory.ts computeTargetPath
ComputeTargetPath(sourcePath) ==
  LET basename == Basename(sourcePath)
      hyphened == ReplaceRuns(basename, PercentOrSpace, "-")
      kept == KeepChars(hyphened, TargetChars)
      collapsed == ReplaceRuns(kept, "-", "-")
      headless == IF StartsWith(collapsed, "-")
                  THEN SubSeq(collapsed, 2, Len(collapsed)) ELSE collapsed
      tailless == IF EndsWith(headless, "-")
                  THEN SubSeq(headless, 1, Len(headless) - 1) ELSE headless
  IN  "/images/" \o ToLowerCase(tailless)

\* asset.apiDownloadUrl as a condition: an absent or empty URL is falsy
HasDownloadUrl(asset) ==
  "apiDownloadUrl" \in DOMAIN asset /\ asset.apiDownloadUrl # ""

\* BucketOf with the manifest tested before the local scan
BucketOfManifestFirst(asset) ==
  LET isReferenced == Len(asset.referencedIn) > 0
  IN  IF ~isReferenced THEN "orphaned"
      ELSE IF ~asset.foundInRepo /\ ~asset.foundInApi THEN "missing"
      ELSE IF asset.foundInApi /\ HasDownloadUrl(asset) THEN "toDownload"
      ELSE IF asset.foundInRepo THEN "toCopy"
      ELSE "missing"

\* categorizeAssets: the bucket of one asset (the if / else-if chain)
BucketOf(asset) ==
  LET isReferenced == Len(asset.referencedIn) > 0
  IN  IF ~isReferenced THEN "orphaned"
      ELSE IF ~asset.foundInRepo /\ ~asset.foundInApi THEN "missing"
      ELSE IF asset.foundInRepo THEN "toCopy"
      ELSE IF asset.foundInApi /\ HasDownloadUrl(asset) THEN "toDownload"
      ELSE "missing"

BucketNames == {"toDownload", "toCopy", "orphaned", "missing"}

RECURSIVE PushAllNoFinalElse(_, _)
\* PushAll without the final else: an asset of the manifest that has no
\* download URL is pushed nowhere
PushAllNoFinalElse(list, buckets) ==
  IF list = <<>> THEN buckets
  ELSE PushAllNoFinalElse(Tail(list),
         IF /\ BucketOf(Head(list)) = "missing"
            /\ Head(list).foundInApi
            /\ Len(Head(list).referencedIn) > 0
         THEN buckets
         ELSE [buckets EXCEPT ![BucketOf(Head(list))] = Append(@, Head(list))])

RECURSIVE PushAll(_, _)
\* the loop of categorizeAssets: each asset pushed to its bucket, in order
PushAll(list, buckets) ==
  IF list = <<>> THEN buckets
  ELSE PushAll(Tail(list),
               [buckets EXCEPT ![BucketOf(Head(list))] = Append(@, Head(list))])

\* asset-inventory.ts categorizeAssets
CategorizeAssetsResult(list) == PushAll(list, NoBuckets)

-----------------------------------------------------------------------------
(* Inputs of the normalizer runs.                                          *)

Alphabet == {"a", "A", "/", "\\", ".", "%", "2", "5"}

RECURSIVE StringsOfLen(_)
StringsOfLen(n) ==
  IF n = 0 THEN {""}
  ELSE {s \o c : s \in StringsOfLen(n - 1), c \in Alphabet}

Strings == UNION {StringsOfLen(n) : n \in 0..MaxLen}

NavIdle ==
  /\ apiStructure = NoApi
  /\ summaryTabs = <<>>
  /\ config = NoConfig
  /\ mergeResult = NoMergeResult
  /\ tabs = <<>>
  /\ discrepancies = <<>>
  /\ redirects = <<>>
  /\ linkMap = EmptyMap

AssetIdle == assets = <<>> /\ categorized = NoBuckets

NormIdle == normKind = "none" /\ normTrace = <<>>

\* tokenize not called
NoTokens == [status |-> "idle", tokens |-> <<>>, message |-> ""]

TokIdle == tokInput = "" /\ tokStrict = FALSE /\ tokResult = NoTokens

\* lastError before any assignment (undefined)
Undefined == "undefined"

\* lastResponse before any assignment (undefined)
NoResponse == [kind |-> "undefined"]

\* fetchWithRetry not settled
NoFetchResult == [kind |-> "pending"]

FetchIdle ==
  /\ fetchPc = "idle"
  /\ maxRetries = 0
  /\ attempt = 0
  /\ lastError = Undefined
  /\ lastResponse = NoResponse
  /\ fetchResult = NoFetchResult
  /\ outcomes = <<>>
  /\ sleeps = <<>>

\* buildAssetInventory not called
InvIdle == apiFiles = <<>> /\ parsedPages = <<>> /\ repoFiles = <<>>

\* no crawl is under way
CrawlIdle ==
  /\ crawlPc = "idle"
  /\ crawlOptions = [concurrency |-> 0, skipPaths |-> <<>>]
  /\ site = <<>>
  /\ visited = <<>>
  /\ queue = <<>>
  /\ batch = <<>>
  /\ settled = <<>>
  /\ fetchedUrls = <<>>
  /\ crawledPages = <<>>
  /\ crawlErrors = <<>>

UtilIdle == TokIdle /\ FetchIdle /\ InvIdle /\ CrawlIdle

-----------------------------------------------------------------------------
(* The reconciliation phase of a run: mergeNavTrees, disambiguateSlugs,    *)
(* buildLinkMap, on every input of the families below.                     *)

\* the sequences over S of at most n elements, all different
DistinctSeqs(S, n) ==
  {s \in UNION {[1..k -> S] : k \in 0..n} :
     \A i, j \in 1..Len(s) : i # j => s[i] # s[j]}

\* the sequences over S of at most n elements
SeqsUpTo(S, n) == UNION {[1..k -> S] : k \in 0..n}

\* Pages of a documentation tab: a parent page, a page nested under it, a
\* page at the path an overview page would take, and a page whose label and
\* path are those of the parent up to case, extension and leading slash.
TreePages ==
  {[label |-> "Billing", path |-> "billing.md"],
   [label |-> "Plans", path |-> "billing/plans.md"],
   [label |-> "Overview", path |-> "billing/overview"],
   [label |-> "billing", path |-> "/Billing"]}

SubGroupLabels == {"Billing", "Overview"}

LeafGroups ==
  {[label |-> l, pages |-> ps, groups |-> <<>>] :
     l \in SubGroupLabels, ps \in SeqsUpTo(TreePages, 1)}

MidGroups ==
  {[label |-> l, pages |-> ps, groups |-> gs] :
     l \in SubGroupLabels, ps \in SeqsUpTo(TreePages, 1),
     gs \in SeqsUpTo(LeafGroups, 1)}

\* one sub-group of depth two at most, or two sub-groups without sub-groups
SubGroupLists == SeqsUpTo(MidGroups, 1) \cup [1..2 -> LeafGroups]

TopGroups ==
  {[label |-> "Docs", pages |-> ps, groups |-> gs] :
     ps \in DistinctSeqs(TreePages, MaxPages), gs \in SubGroupLists}

\* one tab holding one top-level group
TreeTabLists ==
  {<<[label |-> "Docs", slug |-> "docs", sourceFile |-> "SUMMARY.md",
      groups |-> <<g>>]>> : g \in TopGroups}

\* the top-level groups without sub-groups or with one leaf sub-group
FlatTopGroups ==
  {g \in TopGroups : \A i \in 1..Len(g.groups) : g.groups[i] \in LeafGroups}

FlatTabLists ==
  {<<[label |-> "Docs", slug |-> "docs", sourceFile |-> "SUMMARY.md",
      groups |-> <<g>>]>> : g \in {h \in FlatTopGroups : Len(h.groups) <= 1}}

\* Pages of one group among which a page has the label, case aside, of a
\* parent page that has a child page beside it.
NamesakePages ==
  {[label |-> "billing", path |-> "/Billing"],
   [label |-> "Billing", path |-> "billing.md"],
   [label |-> "Plans", path |-> "billing/plans.md"]}

\* one tab whose group holds these pages in any order, alone or beside one
\* sub-group labelled Overview
NamesakeTabLists ==
  {<<[label |-> "Docs", slug |-> "docs", sourceFile |-> "SUMMARY.md",
      groups |-> <<[label |-> "Docs", pages |-> ps, groups |-> gs]>>]>> :
     ps \in DistinctSeqs(NamesakePages, MaxPages + 1),
     gs \in SeqsUpTo({g \in LeafGroups : g.label = "Overview"}, 1)}

\* Authoritative structures: one of site spaces, in which a declared path
\* has the filename of a local page under another directory, one of
\* sections in which two declared paths have the same normalization.
ApiStructures ==
  {[type |-> "siteSpaces",
    structure |-> <<[path |-> "billing.md"], [path |-> "v1/plans.md"]>>],
   [type |-> "sections",
    structure |-> <<[path |-> "/Billing.md/",
                     siteSpaces |-> <<[path |-> "billing.md"],
                                      [path |-> "billing/plans.md"]>>]>>]}

\* config.tabs, in the order of Object.values: none, one entry whose slug is
\* that of the local tab, one whose slug is not
TabConfigs ==
  {<<>>,
   <<[key |-> "SUMMARY.md", label |-> "Handbook", slug |-> "docs"]>>,
   <<[key |-> "SUMMARY.md", label |-> "Guides", slug |-> "guides"]>>}

Configs ==
  {[flattenSingleChildGroups |-> f, tabs |-> tc] : f \in BOOLEAN, tc \in TabConfigs}

\* Pages of several tabs: three that share link-map keys, one under a
\* directory, one whose path starts with the slug of the second tab.
SharedPages ==
  {[label |-> "Setup", path |-> "/setup"],
   [label |-> "Setup", path |-> "setup"],
   [label |-> "Setup", path |-> "setup.md"],
   [label |-> "Setup", path |-> "guides/setup.md"],
   [label |-> "Setup", path |-> "api/setup.md"]}

TabSlugs == <<"docs", "api", "v2", "v3", "v4">>

\* tab i of a list of several tabs: one group of at most one page
SharedTabs(i) ==
  {[label |-> "Tab", slug |-> TabSlugs[i], sourceFile |-> "SUMMARY.md",
    groups |-> <<[label |-> "Guides", pages |-> ps, groups |-> <<>>]>>] :
     ps \in SeqsUpTo(SharedPages, 1)}

SharedTabLists ==
  UNION {{tl \in [1..n -> UNION {SharedTabs(i) : i \in 1..n}] :
            \A i \in 1..n : tl[i] \in SharedTabs(i)} : n \in 2..MaxTabs}

\* the inputs of mergeNavTrees: [api, tabs, config]
Inputs ==
  {[api |-> NoApi, tabs |-> tl, config |-> c] :
     tl \in TreeTabLists,
     c \in {[flattenSingleChildGroups |-> f, tabs |-> <<>>] : f \in BOOLEAN}}
  \cup
  {[api |-> a, tabs |-> tl, config |-> c] :
     a \in ApiStructures \cup {NoApi}, tl \in FlatTabLists, c \in Configs}
  \cup
  {[api |-> NoApi, tabs |-> tl, config |-> NoConfig] :
     tl \in SharedTabLists \cup NamesakeTabLists}

Init ==
  /\ pc = "merge"
  /\ \E in \in Inputs :
       /\ apiStructure = in.api
       /\ summaryTabs = in.tabs
       /\ config = in.config
  /\ mergeResult = NoMergeResult
  /\ tabs = <<>>
  /\ discrepancies = <<>>
  /\ redirects = <<>>
  /\ linkMap = EmptyMap
  /\ AssetIdle
  /\ NormIdle
  /\ UtilIdle

\* cli.ts: mergeResult = mergeNavTrees(apiStructure, summaryTabs, config)
MergeNavTrees ==
  /\ pc = "merge"
  /\ mergeResult' = [tabs |-> MergedTabs(apiStructure, summaryTabs, config),
                     discrepancies |->
                       MergedDiscrepancies(apiStructure, summaryTabs, config)]
  /\ tabs' = mergeResult'.tabs
  /\ discrepancies' = mergeResult'.discrepancies
  /\ pc' = "disambiguate"
  /\ UNCHANGED <<inputVars, redirects, linkMap, assetVars, normVars, utilVars>>

\* cli.ts: disambiguateResult = disambiguateSlugs(reconciledTabs)
Disambiguate ==
  /\ pc = "disambiguate"
  /\ tabs' = DisambiguateSlugs(tabs).tabs
  /\ redirects' = DisambiguateSlugs(tabs).redirects
  /\ pc' = "link"
  /\ UNCHANGED <<inputVars, mergeResult, discrepancies, linkMap, assetVars,
                 normVars, utilVars>>

\* cli.ts: linkMap = buildLinkMap(reconciledTabs, sectionPaths)
BuildLinks ==
  /\ pc = "link"
  /\ linkMap' = BuildLinkMap(tabs)
  /\ pc' = "done"
  /\ UNCHANGED <<inputVars, mergeResult, tabs, discrepancies, redirects,
                 assetVars, normVars, utilVars>>

Next == MergeNavTrees \/ Disambiguate \/ BuildLinks

Spec == Init /\ [][Next]_vars

-----------------------------------------------------------------------------
(* What the claims speak of: the pages and groups of a tree.               *)

RECURSIVE PagesOf(_)
\* the pages of a group list at every depth, each group's pages before
\* those of its sub-groups
PagesOf(groups) ==
  IF groups = <<>> THEN <<>>
  ELSE Head(groups).pages \o PagesOf(Head(groups).groups) \o PagesOf(Tail(groups))

RECURSIVE EntriesOf(_)
\* the pages of a tab list in the same order, each with its tab's slug
EntriesOf(tabList) ==
  IF tabList = <<>> THEN <<>>
  ELSE [i \in 1..Len(PagesOf(Head(tabList).groups)) |->
          [page |-> PagesOf(Head(tabList).groups)[i], slug |-> Head(tabList).slug]]
       \o EntriesOf(Tail(tabList))

RECURSIVE GroupsOf(_)
\* the groups of a group list at every depth
GroupsOf(groups) ==
  IF groups = <<>> THEN {}
  ELSE {Head(groups)} \cup GroupsOf(Head(groups).groups) \cup GroupsOf(Tail(groups))

RECURSIVE GroupsOfTabs(_)
\* the groups of a tab list at every depth
GroupsOfTabs(tabList) ==
  IF tabList = <<>> THEN {}
  ELSE GroupsOf(Head(tabList).groups) \cup GroupsOfTabs(Tail(tabList))

PathsOf(tabList) == {e.page.path : e \in Range(EntriesOf(tabList))}

\* the destination path a page of the final tree resolves to
Destination(entry) == BuildNewPath(OutputPathOf(entry.page), entry.slug)

Merged == pc \in {"disambiguate", "link", "done"}
Disambiguated == pc \in {"link", "done"}

-----------------------------------------------------------------------------
(* The claims about the reconciliation phase.                              *)

\* C1 as stated: after mergeNavTrees and disambiguateSlugs, the source paths
\* of the final tree's pages together with the redirect sources are the
\* source paths of the input pages.
NoContentLossAsStated ==
  Disambiguated =>
    PathsOf(tabs) \cup {r.source : r \in Range(redirects)} = PathsOf(summaryTabs)

\* the redirects whose source is the path, leading slash forced, extension
\* aside
RedirectsFrom(path) ==
  {r \in Range(redirects) :
     StripMdExtension(r.source) = StripMdExtension(EnsureLeadingSlash(path))}

\* C1 amended: every input page's source path is the path of a page of the
\* final tree or, with a leading slash forced and extension aside, the
\* source of a redirect; and every page of the final tree has the source
\* path of an input page or is the overview page a redirect leads to.
NoContentLoss ==
  Disambiguated =>
    /\ \A path \in PathsOf(summaryTabs) :
         \/ path \in PathsOf(tabs)
         \/ RedirectsFrom(path) # {}
    /\ \A path \in PathsOf(tabs) :
         \/ path \in PathsOf(summaryTabs)
         \/ \E r \in Range(redirects) :
              /\ r.destination = EnsureLeadingSlash(path)
              /\ EndsWith(path, "/overview")

\* a run in which an input page has left the tree for a redirect
NoContentLossWitness ==
  /\ Disambiguated
  /\ \E path \in PathsOf(summaryTabs) :
       /\ path \notin PathsOf(tabs)
       /\ \E r \in Range(redirects) : r.source = EnsureLeadingSlash(path)

\* the input pages have pairwise distinct source paths
DistinctSourcePaths ==
  \A i, j \in 1..Len(EntriesOf(summaryTabs)) :
    i # j => EntriesOf(summaryTabs)[i].page.path # EntriesOf(summaryTabs)[j].page.path

\* C2: when the input pages have pairwise distinct source paths, no two
\* pages of the final tree resolve to the same destination path.
UniqueDestinations ==
  (pc = "done" /\ DistinctSourcePaths) =>
    \A i, j \in 1..Len(EntriesOf(tabs)) :
      i # j => Destination(EntriesOf(tabs)[i]) # Destination(EntriesOf(tabs)[j])

\* page P of a group and sub-group G of the same group have the same label,
\* case aside
LabelsMatch(P, G) == ToLowerCase(G.label) = ToLowerCase(P.label)

RECURSIVE DisambiguationAsStatedIn(_, _)
\* C3 over a group list handed to disambiguateSlugs (ins) and the group
\* list returned for it (outs), at every depth
DisambiguationAsStatedIn(ins, outs) ==
  \A i \in 1..Len(ins) :
    /\ \A n \in 1..Len(ins[i].pages), k \in 1..Len(ins[i].groups) :
         LabelsMatch(ins[i].pages[n], ins[i].groups[k]) =>
           /\ Cardinality({m \in 1..Len(redirects) :
                             /\ redirects[m].source = ins[i].pages[n].path
                             /\ EndsWith(redirects[m].destination, "/overview")}) = 1
           /\ Len(outs[i].groups[k].pages) > 0
           /\ outs[i].groups[k].pages[1].label = "Overview"
           /\ \E r \in Range(redirects) :
                /\ r.source = ins[i].pages[n].path
                /\ r.destination = EnsureLeadingSlash(outs[i].groups[k].pages[1].path)
    /\ DisambiguationAsStatedIn(ins[i].groups, outs[i].groups)

\* C3 as stated: for every page P of a group with a sibling sub-group G of
\* the same label (case aside), exactly one redirect has P's original path
\* as source and a destination ending in /overview, and the first entry of
\* G's page list in the output is that overview page.
DisambiguationAsStated ==
  Disambiguated =>
    \A t \in 1..Len(tabs) :
      DisambiguationAsStatedIn(mergeResult.tabs[t].groups, tabs[t].groups)

\* the first sub-group of group X whose label matches page P's, 0 if none
FirstMatch(X, P) ==
  IF \E k \in 1..Len(X.groups) : LabelsMatch(P, X.groups[k])
  THEN CHOOSE k \in 1..Len(X.groups) :
         /\ LabelsMatch(P, X.groups[k])
         /\ \A j \in 1..(k - 1) : ~LabelsMatch(P, X.groups[j])
  ELSE 0

\* the overview path of a page: its path without extension and trailing
\* slashes, then /overview
OverviewPathOf(P) == TrimTrailing(StripMdExtension(P.path), "/") \o "/overview"

RECURSIVE DisambiguationCorrectIn(_, _)
DisambiguationCorrectIn(ins, outs) ==
  \A i \in 1..Len(ins) :
    /\ \A n \in 1..Len(ins[i].pages) :
         LET P == ins[i].pages[n]
             k == FirstMatch(ins[i], P)
             overview == [label |-> "Overview", path |-> OverviewPathOf(P),
                          outputPath |-> OverviewPathOf(P)]
         IN  k # 0 =>
               /\ P \notin Range(outs[i].pages)
               /\ \E r \in RedirectsFrom(P.path) :
                    r.destination = EnsureLeadingSlash(OverviewPathOf(P))
               /\ \/ \E r \in Range(redirects) :
                       r.source = EnsureLeadingSlash(OverviewPathOf(P))
                  \/ /\ overview \in Range(outs[i].groups[k].pages)
                     /\ (\A m \in (n + 1)..Len(ins[i].pages) :
                           FirstMatch(ins[i], ins[i].pages[m]) # k)
                        => outs[i].groups[k].pages[1] = overview
    /\ DisambiguationCorrectIn(ins[i].groups, outs[i].groups)

\* C3 amended: for every page P of a group with a sibling sub-group of the
\* same label (case aside), G being the first such sub-group: P is no longer
\* a direct page of the group; a redirect leads from P's path, with a leading
\* slash forced and extension aside, to P's overview path; and unless that overview page is
\* itself disambiguated inside G (a redirect leads from it), it is in G's
\* page list in the output, as its first entry when no later page of the
\* group matches G.
DisambiguationCorrect ==
  Disambiguated =>
    \A t \in 1..Len(tabs) :
      DisambiguationCorrectIn(mergeResult.tabs[t].groups, tabs[t].groups)

\* a run in which two pages of one group matched the same sub-group, and the
\* overview page of the second came first
DisambiguationWitness ==
  /\ Disambiguated
  /\ Len(redirects) >= 2
  /\ \E X \in GroupsOfTabs(mergeResult.tabs) :
       \E n, m \in 1..Len(X.pages) :
         /\ n < m
         /\ FirstMatch(X, X.pages[n]) # 0
         /\ FirstMatch(X, X.pages[n]) = FirstMatch(X, X.pages[m])
  /\ \E Y \in GroupsOfTabs(tabs) :
       /\ Len(Y.pages) >= 2
       /\ Y.pages[1].path = "/Billing/overview"
       /\ Y.pages[2].path = "billing/overview"

RECURSIVE RedirectValuesIn(_, _)
\* C13 over a group list handed to disambiguateSlugs (ins) and the group
\* list returned for it (outs), at every depth
RedirectValuesIn(ins, outs) ==
  \A i \in 1..Len(ins) :
    /\ \A n \in 1..Len(ins[i].pages), k \in 1..Len(ins[i].groups) :
         LET P == ins[i].pages[n]
             G == ins[i].groups[k]
             bare == TrimTrailing(StripMdExtension(P.path), "/")
         IN  LabelsMatch(P, G) =>
               /\ [source |-> EnsureLeadingSlash(StripMdExtension(P.path)),
                   destination |-> EnsureLeadingSlash(bare \o "/overview")]
                    \in Range(redirects)
               /\ Len(outs[i].groups[k].pages) = Len(G.pages) + 1
               /\ outs[i].groups[k].pages[1].label = "Overview"
               /\ outs[i].groups[k].pages[1].path = bare \o "/overview"
               /\ Tail(outs[i].groups[k].pages) = G.pages
    /\ RedirectValuesIn(ins[i].groups, outs[i].groups)

\* C13: when page P has a label-matching sibling group, the redirect from
\* P's path without extension and with a leading slash to P's overview path
\* is emitted, and the group's page list becomes the overview page (label
\* Overview, path the overview path) followed by the group's previous pages
\* in their previous order.
RedirectValues ==
  Disambiguated =>
    \A t \in 1..Len(tabs) :
      RedirectValuesIn(mergeResult.tabs[t].groups, tabs[t].groups)

\* the path is, leading slash and extension aside, that of one page only of
\* the tree handed to disambiguateSlugs and the overview path of none, so
\* that a redirect from it can only have been emitted for that page
BorneOnce(path) ==
  LET entries == EntriesOf(mergeResult.tabs)
      Key(p) == StripMdExtension(EnsureLeadingSlash(p))
  IN  /\ Cardinality({n \in 1..Len(entries) :
                         Key(entries[n].page.path) = Key(path)}) = 1
      /\ \A n \in 1..Len(entries) :
           Key(OverviewPathOf(entries[n].page)) # Key(path)

RECURSIVE FallbackDetectionIn(_, _)
\* C19 over a group list handed to disambiguateSlugs (ins) and the group
\* list returned for it (outs), at every depth
FallbackDetectionIn(ins, outs) ==
  \A i \in 1..Len(ins) :
    /\ \A n \in 1..Len(ins[i].pages) :
         LET P == ins[i].pages[n]
             nested == \E m \in 1..Len(ins[i].pages) :
                         /\ m # n
                         /\ IsNestedUnder(ins[i].pages[m], NestingPrefix(P.path))
             converted ==
               /\ P \notin Range(outs[i].pages)
               /\ \E k \in (Len(ins[i].groups) + 1)..Len(outs[i].groups) :
                    /\ outs[i].groups[k].label = P.label
                    /\ outs[i].groups[k].pages # <<>>
                    /\ outs[i].groups[k].pages[1].label = "Overview"
                    /\ outs[i].groups[k].pages[1].path = OverviewPathOf(P)
               /\ \E r \in RedirectsFrom(P.path) :
                    r.destination = EnsureLeadingSlash(OverviewPathOf(P))
             untouched ==
               /\ P \in Range(outs[i].pages)
               /\ BorneOnce(P.path) => RedirectsFrom(P.path) = {}
         IN  FirstMatch(ins[i], P) = 0 =>
               IF nested THEN converted ELSE untouched
    /\ \A k \in 1..Len(ins[i].groups) :
         \* a sub-group that no page matches by label reaches the recursive
         \* call as it was handed in
         (\A n \in 1..Len(ins[i].pages) :
            ~LabelsMatch(ins[i].pages[n], ins[i].groups[k]))
           => FallbackDetectionIn(<<ins[i].groups[k]>>, <<outs[i].groups[k]>>)

\* C19: a page P without label-matching sibling sub-group is converted (it
\* leaves the group's pages, a new sub-group with P's label begins with the
\* overview page, a redirect leads from P's path to the overview path) if
\* and only if another page of the same group has a normalized path that
\* starts with P's followed by a slash; otherwise P stays and no redirect is
\* emitted for it.
FallbackDetection ==
  Disambiguated =>
    \A t \in 1..Len(tabs) :
      FallbackDetectionIn(mergeResult.tabs[t].groups, tabs[t].groups)

RECURSIVE NoPageNamedAsSubGroup(_)
\* no group of the list, at any depth, has a direct page whose label is
\* that of one of its sub-groups, case aside
NoPageNamedAsSubGroup(groups) ==
  \A i \in 1..Len(groups) :
    /\ \A n \in 1..Len(groups[i].pages), k \in 1..Len(groups[i].groups) :
         ~LabelsMatch(groups[i].pages[n], groups[i].groups[k])
    /\ NoPageNamedAsSubGroup(groups[i].groups)

\* C20: in the tabs disambiguateSlugs returns, no group at any nesting level
\* has a direct page whose label equals, case aside, the label of one of
\* that group's sub-groups.
PatternEliminated ==
  Disambiguated => \A t \in 1..Len(tabs) : NoPageNamedAsSubGroup(tabs[t].groups)

\* C28: disambiguateSlugs applied to the tabs it returned returns the same
\* tabs and emits no redirects.
DisambiguateSlugsIdempotent ==
  Disambiguated => DisambiguateSlugs(tabs) = [tabs |-> tabs, redirects |-> <<>>]

\* C4: after the full pipeline every input page's source path is a key of
\* the link map, and its value is the destination of a page of the final
\* tree.
EveryOldPathMapped ==
  pc = "done" =>
    \A path \in PathsOf(summaryTabs) :
      /\ path \in DOMAIN linkMap
      /\ \E e \in Range(EntriesOf(tabs)) : linkMap[path] = Destination(e)

\* C5 as stated: every page of the final tree has a key in the link map
\* whose value is the page's resolved destination.
LinkMapTotalAsStated ==
  pc = "done" =>
    \A e \in Range(EntriesOf(tabs)) :
      \E k \in DOMAIN linkMap : linkMap[k] = Destination(e)

\* the keys addPageMappings registers a page under
KeysOf(page) ==
  {page.path,
   StripMdExtension(page.path),
   "/" \o TrimLeading(page.path, "/"),
   "/" \o TrimLeading(StripMdExtension(page.path), "/")}

\* C5 amended: every page of the final tree has its source path as a key of
\* the link map; the value of that key is the page's resolved destination
\* when no other page of the tree registers that key, and the resolved
\* destination of one of the pages registering it otherwise.
LinkMapTotal ==
  pc = "done" =>
    LET entries == EntriesOf(tabs) IN
    \A i \in 1..Len(entries) :
      LET path == entries[i].page.path
          writers == {j \in 1..Len(entries) : path \in KeysOf(entries[j].page)}
      IN  /\ path \in DOMAIN linkMap
          /\ \E j \in writers : linkMap[path] = Destination(entries[j])
          /\ writers = {i} => linkMap[path] = Destination(entries[i])

\* a run whose final tree has a page in each of two tabs with the same source
\* path, so that the second registration replaced the first
LinkMapTotalWitness ==
  /\ pc = "done"
  /\ \E i, j \in 1..Len(EntriesOf(tabs)) :
       /\ i < j
       /\ EntriesOf(tabs)[i].page.path = EntriesOf(tabs)[j].page.path
       /\ Destination(EntriesOf(tabs)[i]) # Destination(EntriesOf(tabs)[j])
       /\ linkMap[EntriesOf(tabs)[j].page.path] = Destination(EntriesOf(tabs)[j])

RECURSIVE NonEmptyGroup(_)
\* a group with a page, or with a sub-group that is non-empty in turn
NonEmptyGroup(group) ==
  \/ Len(group.pages) > 0
  \/ \E i \in 1..Len(group.groups) : NonEmptyGroup(group.groups[i])

\* C6: in the tabs mergeNavTrees returns, flattening on or off, every group
\* at every depth has a page or a non-empty sub-group.
GroupsNonEmpty ==
  Merged => \A g \in GroupsOfTabs(mergeResult.tabs) : NonEmptyGroup(g)

\* a run whose input had a group without pages nor sub-groups under a group
\* that mergeNavTrees kept
GroupsNonEmptyWitness ==
  /\ Merged
  /\ \E g \in GroupsOfTabs(summaryTabs) : g.pages = <<>> /\ g.groups = <<>>
  /\ GroupsOfTabs(mergeResult.tabs) # {}

\* C10: with an authoritative structure, every local page whose normalized
\* path is that of no declared path has an orphan discrepancy carrying its
\* path, and is a page of the tree mergeNavTrees returns.
OrphansReportedAndKept ==
  (Merged /\ apiStructure # NoApi) =>
    \A e \in Range(EntriesOf(summaryTabs)) :
      (\A q \in Range(CollectApiPaths(apiStructure)) :
         TreeNormalizePath(q) # TreeNormalizePath(e.page.path))
      => /\ \E d \in Range(mergeResult.discrepancies) :
              /\ d.type = "orphan"
              /\ d.path = e.page.path
              /\ StartsWith(d.details, "Page \"" \o e.page.label \o "\"")
         /\ e \in Range(EntriesOf(mergeResult.tabs))

\* a run with an authoritative structure in which one page is an orphan and
\* another is declared
OrphansReportedWitness ==
  /\ Merged
  /\ apiStructure # NoApi
  /\ \E d \in Range(mergeResult.discrepancies) :
       d.type = "orphan" /\ d.path = "billing/plans.md"
  /\ \E e \in Range(EntriesOf(summaryTabs)) :
       /\ e.page.path = "billing.md"
       /\ \A d \in Range(mergeResult.discrepancies) : d.path # "billing.md"

\* C21: with an authoritative structure, a local page whose trailing
\* filename is that of a declared path under another directory prefix is
\* treated as matched: mergeNavTrees records no orphan discrepancy for it.
FilenameOnlyMatch ==
  (Merged /\ apiStructure # NoApi) =>
    \A e \in Range(EntriesOf(summaryTabs)) :
      (\E q \in Range(CollectApiPaths(apiStructure)) :
         /\ TreeNormalizePath(q) # TreeNormalizePath(e.page.path)
         /\ Basename(TreeNormalizePath(q)) = Basename(TreeNormalizePath(e.page.path)))
      => \A d \in Range(mergeResult.discrepancies) :
           ~(d.type = "orphan" /\ d.path = e.page.path)

\* the pages of a tab, each as often as the tab holds it
SamePages(groupsA, groupsB) ==
  \A p \in Range(PagesOf(groupsA)) \cup Range(PagesOf(groupsB)) :
    Cardinality({n \in 1..Len(PagesOf(groupsA)) : PagesOf(groupsA)[n] = p})
      = Cardinality({n \in 1..Len(PagesOf(groupsB)) : PagesOf(groupsB)[n] = p})

\* a group without direct page and with one sub-group only
IsSingleChildGroup(g) == Len(g.pages) = 0 /\ Len(g.groups) = 1

\* the tree mergeNavTrees holds before the flattening pass
BeforeFlattening ==
  DeduplicateTabGroupNames(
    RemoveEmptyGroups(CandidateTabs(apiStructure, summaryTabs, config)))

\* C24: with flattenSingleChildGroups on, no group at any depth of the tabs
\* mergeNavTrees returns has zero direct pages and exactly one sub-group, and
\* each tab holds the pages it held before flattening, each as often; with
\* the option off, no group is replaced.
FlatteningPostCondition ==
  Merged =>
    IF config.flattenSingleChildGroups
    THEN /\ \A g \in GroupsOfTabs(mergeResult.tabs) : ~IsSingleChildGroup(g)
         /\ Len(mergeResult.tabs) = Len(summaryTabs)
         /\ \A t \in 1..Len(summaryTabs) :
              /\ SamePages(mergeResult.tabs[t].groups, BeforeFlattening[t].groups)
              /\ SamePages(mergeResult.tabs[t].groups, summaryTabs[t].groups)
    ELSE mergeResult.tabs = BeforeFlattening

\* a run with the option on whose input nests two groups without direct
\* pages, each with one sub-group, above a group of pages
FlatteningWitness ==
  /\ Merged
  /\ config.flattenSingleChildGroups
  /\ mergeResult.tabs # BeforeFlattening
  /\ \E g \in GroupsOfTabs(summaryTabs) :
       /\ IsSingleChildGroup(g)
       /\ IsSingleChildGroup(g.groups[1])
       /\ g.groups[1].groups[1].pages # <<>>

\* the discrepancies of mergeNavTrees that flag the tab: tagged with its
\* slug and worded as flagSinglePageTabs words them
FlagsOf(tab) ==
  {n \in 1..Len(mergeResult.discrepancies) :
     /\ mergeResult.discrepancies[n].path = tab.slug
     /\ StartsWith(mergeResult.discrepancies[n].details, "Tab \"")}

\* C25: mergeNavTrees records a discrepancy tagged with a tab's slug if and
\* only if the tab, pruned and flattened, holds exactly one page at all
\* depths together; the flag is advisory: the flagged tab is returned with
\* its page, which is the page of the tab handed in.
SinglePageTabsFlagged ==
  Merged =>
    /\ Len(mergeResult.tabs) = Len(summaryTabs)
    /\ \A t \in 1..Len(mergeResult.tabs) :
         LET tab == mergeResult.tabs[t]
         IN  /\ FlagsOf(tab) # {} <=> Len(PagesOf(tab.groups)) = 1
             /\ Cardinality(FlagsOf(tab)) <= 1
             /\ FlagsOf(tab) # {} =>
                  /\ tab.slug = summaryTabs[t].slug
                  /\ PagesOf(tab.groups) = PagesOf(summaryTabs[t].groups)

\* a run over several tabs of which one holds a single page and is flagged,
\* one holds none and is not
SinglePageTabsWitness ==
  /\ Merged
  /\ \E t, u \in 1..Len(mergeResult.tabs) :
       /\ FlagsOf(mergeResult.tabs[t]) # {}
       /\ Len(PagesOf(mergeResult.tabs[t].groups)) = 1
       /\ FlagsOf(mergeResult.tabs[u]) = {}
       /\ PagesOf(mergeResult.tabs[u].groups) = <<>>

RECURSIVE ReferencesOf(_)
\* the page references of a list of entries of a docs.json group, at every
\* depth
ReferencesOf(entries) ==
  IF entries = <<>> THEN {}
  ELSE (IF "page" \in DOMAIN Head(entries)
        THEN {Head(entries).page}
        ELSE ReferencesOf(Head(entries).pages))
       \cup ReferencesOf(Tail(entries))

\* the page references of a docs.json navigation
NavigationReferences(navigation) ==
  UNION {ReferencesOf(navigation[i].groups) : i \in 1..Len(navigation)}

\* the parsed pages when every page of the input navigation has one, of its
\* path
ParsedPagesOfNavigation ==
  [n \in 1..Len(EntriesOf(summaryTabs)) |->
     [path |-> EntriesOf(summaryTabs)[n].page.path]]

\* C27: when every page of the input navigation has a parsed page of its
\* path, every page reference of the navigation buildDocsJson builds from
\* the final tabs is, leading slashes aside, the output path without .mdx of
\* a converted page, the overview pages of disambiguateSlugs included.
NavigationEntriesHavePages ==
  pc = "done" =>
    \A ref \in NavigationReferences(BuildNavigation(tabs)) :
      TrimLeading(ref, "/") \o ".mdx"
        \in Range(ConvertedOutputPaths(ParsedPagesOfNavigation))

\* C12: the final value of every key of the link map is the destination of
\* the first page, in the traversal order of buildLinkMap, that registered
\* the key: no later registration has overwritten it.
FirstWriterWins ==
  pc = "done" =>
    LET entries == EntriesOf(tabs) IN
    \A k \in DOMAIN linkMap :
      LET writers == {i \in 1..Len(entries) : k \in KeysOf(entries[i].page)}
          first == CHOOSE i \in writers : \A j \in writers : i <= j
      IN  linkMap[k] = Destination(entries[first])

\* the destination C14 states for a page of a tab: the output path without
\* extension, under the tab's section prefix unless it starts with it
StatedDestination(entry) ==
  LET output == IF "outputPath" \in DOMAIN entry.page
                THEN entry.page.outputPath ELSE entry.page.path
      bare == TrimLeading(StripMdExtension(output), "/")
  IN  IF StartsWith(ToLowerCase(bare), ToLowerCase(entry.slug) \o "/")
      THEN "/" \o bare
      ELSE "/" \o entry.slug \o "/" \o bare

\* C14: for every page of the final tree, each of its four keys (source
\* path, source path without extension, either with a leading slash) that
\* no other page registers is a key of the link map and maps to the page's
\* output path without extension under the tab's section prefix, the prefix
\* not being repeated when the path starts with it.
LinkMapKeysAndDestination ==
  pc = "done" =>
    LET entries == EntriesOf(tabs) IN
    \A i \in 1..Len(entries) :
      \A k \in KeysOf(entries[i].page) :
        (\A j \in 1..Len(entries) : j # i => k \notin KeysOf(entries[j].page))
        => /\ k \in DOMAIN linkMap
           /\ linkMap[k] = StatedDestination(entries[i])

\* a run in which guides/setup.md of tab docs is registered under its four
\* keys, and a page of tab api whose path starts with api/ is registered
\* without a second prefix
LinkMapKeysWitness ==
  /\ pc = "done"
  /\ {"guides/setup.md", "guides/setup", "/guides/setup.md", "/guides/setup"}
       \subseteq DOMAIN linkMap
  /\ \A k \in {"guides/setup.md", "guides/setup", "/guides/setup.md", "/guides/setup"} :
       linkMap[k] = "/docs/guides/setup"
  /\ "api/setup.md" \in DOMAIN linkMap
  /\ linkMap["api/setup.md"] = "/api/setup"

\* C15, in a state: without an authoritative structure the candidate tree is
\* the local tab list, so that the tabs returned are the validation passes
\* applied to it, and no orphan nor label-mismatch discrepancy is recorded
\* for a page.
PassThroughResult ==
  (Merged /\ apiStructure = NoApi) =>
    /\ CandidateTabs(apiStructure, summaryTabs, config) = summaryTabs
    /\ mergeResult.tabs =
         LET deduplicated == DeduplicateTabGroupNames(RemoveEmptyGroups(summaryTabs))
         IN  IF config.flattenSingleChildGroups
             THEN FlattenSingleChildGroups(deduplicated)
             ELSE deduplicated
    /\ \A d \in Range(mergeResult.discrepancies) :
         /\ d.type # "label_mismatch"
         /\ d.path \notin PathsOf(summaryTabs)

\* C15: without an authoritative structure the candidate tree of
\* mergeNavTrees is the local tab list verbatim, no orphan nor label-mismatch
\* discrepancy is recorded for any page, and mergeNavTrees leaves the
\* caller's tab list as it was.
PassThrough ==
  /\ []PassThroughResult
  /\ [][MergeNavTrees => summaryTabs' = summaryTabs]_vars

\* a run without authoritative structure, with a tab configured under the
\* local tab's slug, whose local tree has pages and an empty group
PassThroughWitness ==
  /\ Merged
  /\ apiStructure = NoApi
  /\ \E c \in Range(config.tabs) : c.slug = summaryTabs[1].slug
  /\ PathsOf(summaryTabs) # {}
  /\ \E g \in GroupsOfTabs(summaryTabs) : g.pages = <<>> /\ g.groups = <<>>
  /\ mergeResult.tabs[1].label = summaryTabs[1].label

\* C16: every local tab whose source file is a key of config.tabs is returned
\* by mergeNavTrees with the configured label, with or without an
\* authoritative structure, and with the local tab's slug.
LabelOverrideBySourceFile ==
  Merged =>
    \A i \in 1..Len(summaryTabs) :
      /\ mergeResult.tabs[i].slug = summaryTabs[i].slug
      /\ \A c \in Range(config.tabs) :
           c.key = summaryTabs[i].sourceFile => mergeResult.tabs[i].label = c.label

\* the site-space structures that declare the paths of api, each once, in
\* every order
Reorderings(api) ==
  LET declared == Range(CollectApiPaths(api))
      n == Cardinality(declared)
  IN  {[type |-> "siteSpaces",
        structure |-> [i \in 1..n |-> [path |-> order[i]]]] :
         order \in {s \in [1..n -> declared] :
                      \A i, j \in 1..n : i # j => s[i] # s[j]}}

\* C11: for every authoritative structure that declares the same set of
\* paths as the one supplied in another order, mergeNavTrees on the same
\* local tabs and configuration returns the same tabs and the same
\* discrepancies.
MergeOrderIndependent ==
  (Merged /\ apiStructure # NoApi) =>
    \A other \in Reorderings(apiStructure) :
      /\ MergedTabs(other, summaryTabs, config) = mergeResult.tabs
      /\ MergedDiscrepancies(other, summaryTabs, config) = mergeResult.discrepancies

-----------------------------------------------------------------------------
(* categorizeAssets applied to every asset list.                           *)

AssetSourcePaths == {"img/My Logo.PNG"}
ReferencingPages == {<<>>, <<"guides/setup.md">>}
DownloadUrls == {"", "https://files.example/logo"}

\* every ImageAsset over the sets above, with and without apiDownloadUrl
AssetUniverse ==
  {[sourcePath |-> s, referencedIn |-> r, foundInRepo |-> fr, foundInApi |-> fa,
    targetPath |-> ComputeTargetPath(s)] :
      s \in AssetSourcePaths, r \in ReferencingPages,
      fr \in BOOLEAN, fa \in BOOLEAN}
  \cup
  {[sourcePath |-> s, referencedIn |-> r, foundInRepo |-> fr, foundInApi |-> fa,
    apiDownloadUrl |-> u, targetPath |-> ComputeTargetPath(s)] :
      s \in AssetSourcePaths, r \in ReferencingPages,
      fr \in BOOLEAN, fa \in BOOLEAN, u \in DownloadUrls}

AssetLists == UNION {[1..n -> AssetUniverse] : n \in 0..MaxAssets}

InitAssets ==
  /\ pc = "categorize"
  /\ assets \in AssetLists
  /\ categorized = NoBuckets
  /\ NavIdle
  /\ NormIdle
  /\ UtilIdle

\* cli.ts: const categorized = categorizeAssets(assets)
CategorizeAssets ==
  /\ pc = "categorize"
  /\ categorized' = CategorizeAssetsResult(assets)
  /\ pc' = "categorized"
  /\ UNCHANGED <<assets, navVars, normVars, utilVars>>

NextAssets == CategorizeAssets

SpecAssets == InitAssets /\ [][NextAssets]_vars

Occurrences(seq, x) == Cardinality({i \in 1..Len(seq) : seq[i] = x})

\* C7: categorizeAssets places every asset in exactly one of the four
\* buckets: each asset of the list is in one bucket and no other, it is there
\* as many times as it is in the list, and the buckets hold nothing else.
AssetPartition ==
  pc = "categorized" =>
    /\ \A a \in Range(assets) :
         \E b \in BucketNames :
           /\ Occurrences(categorized[b], a) = Occurrences(assets, a)
           /\ \A c \in BucketNames \ {b} : a \notin Range(categorized[c])
    /\ \A b \in BucketNames : Range(categorized[b]) \subseteq Range(assets)

\* a run in which two assets went to two different buckets
AssetPartitionWitness ==
  /\ pc = "categorized"
  /\ Len(assets) = 2
  /\ Len(categorized.toCopy) = 1
  /\ Len(categorized.missing) = 1

\* C8: an asset is orphaned when no page references it; otherwise missing
\* when it is in neither the local scan nor the manifest; otherwise toCopy
\* when it is present locally; otherwise toDownload when it is in the
\* manifest with a retrieval URL; otherwise missing.
AssetClassificationRule ==
  pc = "categorized" =>
    \A a \in Range(assets) :
      /\ a \in Range(categorized.orphaned) <=> a.referencedIn = <<>>
      /\ a \in Range(categorized.toCopy) <=>
           (a.referencedIn # <<>> /\ a.foundInRepo)
      /\ a \in Range(categorized.toDownload) <=>
           (a.referencedIn # <<>> /\ ~a.foundInRepo /\ a.foundInApi
            /\ HasDownloadUrl(a))
      /\ a \in Range(categorized.missing) <=>
           (a.referencedIn # <<>> /\ ~a.foundInRepo
            /\ (~a.foundInApi \/ ~HasDownloadUrl(a)))

\* a run that classified one asset present locally and in the manifest, and
\* one asset of the manifest that has no retrieval URL
AssetClassificationWitness ==
  /\ pc = "categorized"
  /\ \E a \in Range(categorized.toCopy) : a.foundInApi /\ HasDownloadUrl(a)
  /\ \E a \in Range(categorized.missing) : a.foundInApi /\ ~HasDownloadUrl(a)

-----------------------------------------------------------------------------
(* buildAssetInventory: the three sources merged into one inventory, which *)
(* categorizeAssets then classifies.  Maps and sets are sequences in       *)
(* insertion order.                                                        *)

\* img matches /^https?:\/\//
IsExternalUrl(img) == StartsWith(img, "http://") \/ StartsWith(img, "https://")

\* the index of the entry of an ordered map that has the key, 0 when none
KeyIndex(map, key) ==
  IF \E i \in 1..Len(map) : map[i].key = key
  THEN CHOOSE i \in 1..Len(map) : map[i].key = key
  ELSE 0

\* Map.prototype.set on an ordered map of [key, value] entries
OrderedSet(map, key, value) ==
  IF KeyIndex(map, key) # 0
  THEN [map EXCEPT ![KeyIndex(map, key)] = [key |-> key, value |-> value]]
  ELSE Append(map, [key |-> key, value |-> value])

RECURSIVE AddImageReferences(_, _, _)
\* collectImageReferences: the inner loop over page.images
AddImageReferences(refs, pagePath, images) ==
  IF images = <<>> THEN refs
  ELSE LET img == Head(images)
           normalized == AssetNormalizePath(img)
           known == IF KeyIndex(refs, normalized) = 0 THEN <<>>
                    ELSE refs[KeyIndex(refs, normalized)].value
       IN  AddImageReferences(
             IF IsExternalUrl(img) THEN refs
             ELSE OrderedSet(refs, normalized, SetAdd(known, pagePath)),
             pagePath, Tail(images))

RECURSIVE CollectImageReferencesFrom(_, _)
\* collectImageReferences: the loop over pages
CollectImageReferencesFrom(refs, pages) ==
  IF pages = <<>> THEN refs
  ELSE CollectImageReferencesFrom(
         AddImageReferences(refs, Head(pages).path, Head(pages).images),
         Tail(pages))

\* asset-inventory.ts collectImageReferences
CollectImageReferences(pages) == CollectImageReferencesFrom(<<>>, pages)

ImageExtensions ==
  {".png", ".jpg", ".jpeg", ".gif", ".svg", ".webp", ".avif", ".ico", ".bmp",
   ".tif", ".tiff"}

\* asset-inventory.ts isImageExtension
IsImageExtension(filename) ==
  \E e \in ImageExtensions : EndsWith(ToLowerCase(filename), e)

\* file.contentType?.startsWith('image/'), undefined when contentType is
HasImageContentType(file) ==
  file.contentType # Undefined /\ StartsWith(file.contentType, "image/")

RECURSIVE IndexApiFilesFrom(_, _)
\* indexApiFiles: the loop over apiFiles
IndexApiFilesFrom(index, files) ==
  IF files = <<>> THEN index
  ELSE IndexApiFilesFrom(
         IF HasImageContentType(Head(files)) \/ IsImageExtension(Head(files).name)
         THEN OrderedSet(index, AssetNormalizePath(Head(files).name), Head(files))
         ELSE index,
         Tail(files))

\* asset-inventory.ts indexApiFiles
IndexApiFiles(files) == IndexApiFilesFrom(<<>>, files)

\* asset-inventory.ts findApiMatch: the file found in a sequence of one
\* element, the empty sequence for undefined
FindApiMatch(normalizedPath, apiFileIndex) ==
  LET basename == Basename(normalizedPath)
      byName == SelectSeq(apiFileIndex,
                  LAMBDA e : EndsWith(e.key, "/" \o basename) \/ e.key = basename)
  IN  IF KeyIndex(apiFileIndex, normalizedPath) # 0
      THEN <<apiFileIndex[KeyIndex(apiFileIndex, normalizedPath)].value>>
      ELSE IF byName # <<>> THEN <<Head(byName).value>>
      ELSE <<>>

\* the ImageAsset of a referenced image (apiDownloadUrl left out when it is
\* undefined)
ReferencedAsset(sourcePath, referencedIn, repo, apiFileIndex) ==
  LET normalized == AssetNormalizePath(sourcePath)
      apiEntry == FindApiMatch(normalized, apiFileIndex)
      base == [sourcePath |-> sourcePath,
               referencedIn |-> referencedIn,
               foundInRepo |-> normalized \in Range(repo),
               foundInApi |-> apiEntry # <<>>,
               targetPath |-> ComputeTargetPath(sourcePath)]
  IN  IF apiEntry # <<>> /\ Head(apiEntry).downloadURL # Undefined
      THEN [f \in DOMAIN base \cup {"apiDownloadUrl"} |->
              IF f = "apiDownloadUrl" THEN Head(apiEntry).downloadURL ELSE base[f]]
      ELSE base

RECURSIVE AddReferenced(_, _, _, _)
\* buildAssetInventory phase 4, the loop over referencedImages
AddReferenced(assetMap, refs, repo, apiFileIndex) ==
  IF refs = <<>> THEN assetMap
  ELSE AddReferenced(
         OrderedSet(assetMap, AssetNormalizePath(Head(refs).key),
                    ReferencedAsset(Head(refs).key, Head(refs).value, repo,
                                    apiFileIndex)),
         Tail(refs), repo, apiFileIndex)

\* the ImageAsset of a manifest file no page references
ManifestAsset(apiFile, repo) ==
  LET base == [sourcePath |-> apiFile.name,
               referencedIn |-> <<>>,
               foundInRepo |-> AssetNormalizePath(apiFile.name) \in Range(repo),
               foundInApi |-> TRUE,
               targetPath |-> ComputeTargetPath(apiFile.name)]
  IN  IF apiFile.downloadURL # Undefined
      THEN [f \in DOMAIN base \cup {"apiDownloadUrl"} |->
              IF f = "apiDownloadUrl" THEN apiFile.downloadURL ELSE base[f]]
      ELSE base

RECURSIVE AddManifestFiles(_, _, _)
\* buildAssetInventory phase 4, the loop over apiFiles
AddManifestFiles(assetMap, files, repo) ==
  IF files = <<>> THEN assetMap
  ELSE AddManifestFiles(
         IF /\ HasImageContentType(Head(files))
            /\ KeyIndex(assetMap, AssetNormalizePath(Head(files).name)) = 0
         THEN OrderedSet(assetMap, AssetNormalizePath(Head(files).name),
                         ManifestAsset(Head(files), repo))
         ELSE assetMap,
         Tail(files), repo)

RECURSIVE AddRepoFiles(_, _)
\* buildAssetInventory phase 4, the loop over repoFiles
AddRepoFiles(assetMap, repo) ==
  IF repo = <<>> THEN assetMap
  ELSE AddRepoFiles(
         IF KeyIndex(assetMap, Head(repo)) = 0
         THEN OrderedSet(assetMap, Head(repo),
                         [sourcePath |-> Head(repo),
                          referencedIn |-> <<>>,
                          foundInRepo |-> TRUE,
                          foundInApi |-> FALSE,
                          targetPath |-> ComputeTargetPath(Head(repo))])
         ELSE assetMap,
         Tail(repo))

\* buildAssetInventory: assetMap when phase 4 ends
AssetMapOf(files, pages, repo) ==
  AddRepoFiles(
    AddManifestFiles(
      AddReferenced(<<>>, CollectImageReferences(pages), repo, IndexApiFiles(files)),
      files, repo),
    repo)

\* asset-inventory.ts buildAssetInventory: [...assetMap.values()]
BuildAssetInventoryResult(files, pages, repo) ==
  LET assetMap == AssetMapOf(files, pages, repo)
  IN  [i \in 1..Len(assetMap) |-> assetMap[i].value]

\* most images of a parsed page
MaxImages == 1

\* image references of page bodies: one without directory prefix, one with
\* the prefix of the asset directory, one whose name holds a character that
\* is neither alphanumeric nor kept, one external
ImageRefs ==
  {"logo.png", ".gitbook/assets/logo.png", "img/a@b.png",
   "https://cdn.example/x.png"}

PagePaths == <<"guides/setup.md", "index.md">>

\* the parsed pages: one or two pages, each with MaxImages images at most
ParsedPageLists ==
  UNION {{pl \in [1..n -> [path : Range(PagePaths),
                          images : SeqsUpTo(ImageRefs, MaxImages)]] :
            \A i \in 1..n : pl[i].path = PagePaths[i]} : n \in 1..2}

\* files of the manifest: an image under the asset directory, the same
\* without retrieval URL and without content type, an image whose name is
\* that of a reference, a text file
ManifestFiles ==
  {[name |-> ".gitbook/assets/logo.png", contentType |-> "image/png",
    downloadURL |-> "https://files.example/logo"],
   [name |-> ".gitbook/assets/logo.png", contentType |-> Undefined,
    downloadURL |-> Undefined],
   [name |-> "img/a@b.png", contentType |-> "image/png",
    downloadURL |-> "https://files.example/ab"],
   [name |-> "notes.txt", contentType |-> "text/plain",
    downloadURL |-> "https://files.example/notes"]}

ManifestLists == DistinctSeqs(ManifestFiles, MaxAssets)

\* the entries readdir returns under .gitbook/assets
ScannedEntries == {<<>>, <<"logo.png">>, <<"logo.png", "a@b.png">>}

\* scanGitBookAssets: the normalized relative paths of the entries
ScanGitBookAssets(entries) ==
  [i \in 1..Len(entries) |-> AssetNormalizePath(".gitbook/assets/" \o entries[i])]

InitInventory ==
  /\ pc = "inventory"
  /\ apiFiles \in ManifestLists
  /\ parsedPages \in ParsedPageLists
  /\ repoFiles \in {ScanGitBookAssets(es) : es \in ScannedEntries}
  /\ AssetIdle
  /\ NavIdle
  /\ NormIdle
  /\ TokIdle
  /\ FetchIdle
  /\ CrawlIdle

\* cli.ts: assets = await buildAssetInventory(apiFiles, parsedPages, sourceDir)
BuildAssetInventory ==
  /\ pc = "inventory"
  /\ assets' = BuildAssetInventoryResult(apiFiles, parsedPages, repoFiles)
  /\ pc' = "categorize"
  /\ UNCHANGED <<categorized, navVars, normVars, utilVars>>

NextInventory == BuildAssetInventory \/ CategorizeAssets

SpecInventory == InitInventory /\ [][NextInventory]_vars

\* buildAssetInventory has returned
Inventoried == pc \in {"categorize", "categorized"} /\ parsedPages # <<>>

\* whether a file of a source and a normalized reference are matched by the
\* rule of manifest matching: same normalized path or, failing that, same
\* filename
MatchedByPathOrFilename(file, normalized) ==
  \/ file = normalized
  \/ EndsWith(file, "/" \o Basename(normalized))
  \/ file = Basename(normalized)

\* C22: local-scan matching uses the rule of manifest matching: a referenced
\* image is marked found in the local repository when a scanned file has the
\* same normalized path or, failing that, the same filename.
LocalScanMatchedAsManifest ==
  Inventoried =>
    \A a \in Range(assets) :
      (/\ a.referencedIn # <<>>
       /\ \E f \in Range(repoFiles) :
            MatchedByPathOrFilename(f, AssetNormalizePath(a.sourcePath)))
      => a.foundInRepo

\* the printable characters that are neither letters nor digits
NonAlphanumerics == " !\"#$%&'()*+,-./:;<=>?@[\\]^_{|}~"

\* C23: the target path of every asset is /images/ followed by the source
\* path's basename in which every run of non-alphanumeric characters is
\* collapsed to a single hyphen, lower-cased.
TargetPathFromBasename ==
  Inventoried =>
    \A a \in Range(assets) :
      a.targetPath =
        "/images/" \o ToLowerCase(ReplaceRuns(Basename(a.sourcePath),
                                               NonAlphanumerics, "-"))

\* the files of the manifest that findApiMatch returned for a reference
MatchedManifestFiles ==
  {f \in Range(apiFiles) :
     \E n \in 1..Len(CollectImageReferences(parsedPages)) :
       FindApiMatch(AssetNormalizePath(CollectImageReferences(parsedPages)[n].key),
                    IndexApiFiles(apiFiles)) = <<f>>}

\* C29: a manifest file matched to a referenced image, directly or by its
\* filename, is no separate unreferenced asset of the inventory, and
\* categorizeAssets reports no asset of its name as orphaned.
ManifestFileAccountedOnce ==
  Inventoried =>
    \A f \in MatchedManifestFiles :
      /\ \A a \in Range(assets) :
           ~(a.referencedIn = <<>> /\ a.foundInApi /\ a.sourcePath = f.name)
      /\ \A a \in Range(categorized.orphaned) :
           ~(a.foundInApi /\ a.sourcePath = f.name)

-----------------------------------------------------------------------------
(* The normalizers applied twice to every string.                          *)

InitNormalize ==
  /\ pc = "normalize"
  /\ normKind \in {"asset", "tree"}
  /\ normTrace \in {<<s>> : s \in Strings}
  /\ NavIdle
  /\ AssetIdle
  /\ UtilIdle

NormalizeAsset ==
  /\ pc = "normalize"
  /\ normKind = "asset"
  /\ Len(normTrace) < 3
  /\ normTrace' = Append(normTrace, AssetNormalizePath(Last(normTrace)))
  /\ UNCHANGED <<pc, normKind, navVars, assetVars, utilVars>>

NormalizeTree ==
  /\ pc = "normalize"
  /\ normKind = "tree"
  /\ Len(normTrace) < 3
  /\ normTrace' = Append(normTrace, TreeNormalizePath(Last(normTrace)))
  /\ UNCHANGED <<pc, normKind, navVars, assetVars, utilVars>>

NextNormalize == NormalizeAsset \/ NormalizeTree

SpecNormalize == InitNormalize /\ [][NextNormalize]_vars

\* C9: normalizing is idempotent, for the asset-inventory normalizer and
\* for the tree merger's normalizer: the second normalization of any string
\* returns what the first one returned.
NormalizeIdempotent ==
  Len(normTrace) = 3 => normTrace[3] = normTrace[2]

\* the tree merger's normalizer alone is idempotent
TreeNormalizeIdempotent ==
  (normKind = "tree" /\ Len(normTrace) = 3) => normTrace[3] = normTrace[2]

-----------------------------------------------------------------------------
(* The block tokenizer: the character-level state machine of tokenize.     *)
(* Offsets are those of the source, counted from 0.  The attributes of a   *)
(* tag are left out of the tokens: no branch of the scan reads them.       *)

CurrentBlockTypes ==
  {"hint", "tabs", "tab", "stepper", "step", "details", "embed", "content-ref",
   "code", "file", "swagger", "swagger-description", "swagger-parameter",
   "swagger-response"}

LegacyBlockTypes ==
  {"api-method", "api-method-summary", "api-method-description",
   "api-method-spec", "api-method-request", "api-method-response",
   "api-method-headers", "api-method-path-parameters",
   "api-method-query-parameters", "api-method-body-parameters",
   "api-method-parameter", "api-method-response-example", "code-tabs",
   "code-tabs-item"}

AllBlockTypes == CurrentBlockTypes \cup LegacyBlockTypes

\* the characters \s matches and trim removes, among those of the inputs
WhiteSpace == " \t\n\r"

RECURSIVE TrimTrailingIn(_, _)
\* s with its longest suffix of characters of chars removed
TrimTrailingIn(s, chars) ==
  IF s # "" /\ InChars(Char(s, Len(s)), chars)
  THEN TrimTrailingIn(SubSeq(s, 1, Len(s) - 1), chars) ELSE s

\* String.prototype.trim
Trim(s) == TrimTrailingIn(TrimLeadingIn(s, WhiteSpace), WhiteSpace)

\* input.slice(from, to)
Slice(s, from, to) == SubSeq(s, from + 1, to)

\* trimmed.search(/\s/) counted from 1, 0 standing for -1
SearchSpace(s) ==
  LET hits == {i \in 1..Len(s) : InChars(Char(s, i), WhiteSpace)}
  IN  IF hits = {} THEN 0 ELSE CHOOSE i \in hits : \A j \in hits : i <= j

\* parseTagBody: type and isEnd
ParseTagBody(body) ==
  LET trimmed == Trim(body)
      spaceIdx == SearchSpace(trimmed)
  IN  IF StartsWith(trimmed, "end")
      THEN [type |-> trimmed, isEnd |-> TRUE]
      ELSE [type |-> IF spaceIdx = 0 THEN trimmed
                     ELSE SubSeq(trimmed, 1, spaceIdx - 1),
            isEnd |-> FALSE]

\* lineAt(offset, buildLineStarts(input)): the line starts at or before
\* offset
LineAt(input, offset) ==
  1 + Cardinality({i \in 1..Len(input) : Char(input, i) = "\n" /\ i <= offset})

\* findMatchingFrame, frames counted from 1, 0 standing for -1
FindMatchingFrame(stack, endType) ==
  LET hits == {i \in 1..Len(stack) : stack[i].type = endType}
  IN  IF hits = {} THEN 0 ELSE CHOOSE i \in hits : \A j \in hits : j <= i

\* the variables of tokenize before the loop
ScanStart ==
  [state |-> "Text", markerStart |-> 0, tagBody |-> "", stack |-> <<>>,
   tokens |-> <<>>, thrown |-> ""]

\* State.MaybeClose on "}", closing tag: i is the offset of the "}"
CloseTag(input, i, st, parsed) ==
  LET endType == SubSeq(parsed.type, 4, Len(parsed.type))
      frameIdx == FindMatchingFrame(st.stack, endType)
      tagEnd == i + 1
  IN  IF frameIdx = 0 THEN st
      ELSE
        LET frame == st.stack[frameIdx]
            content == IF frame.contentCursor < st.markerStart
                       THEN frame.contentParts
                            \o Slice(input, frame.contentCursor, st.markerStart)
                       ELSE frame.contentParts
            token == [type |-> frame.type,
                      content |-> content,
                      children |-> frame.children,
                      raw |-> Slice(input, frame.openStart, tagEnd),
                      startLine |-> frame.startLine,
                      endLine |-> LineAt(input, i)]
            below == SubSeq(st.stack, 1, frameIdx - 1)
        IN  IF below # <<>>
            THEN LET parent == below[Len(below)]
                     captured == IF parent.contentCursor < frame.openStart
                                 THEN parent.contentParts
                                      \o Slice(input, parent.contentCursor,
                                               frame.openStart)
                                 ELSE parent.contentParts
                 IN  [st EXCEPT
                        !.stack = [below EXCEPT ![Len(below)] =
                                     [parent EXCEPT !.children = Append(@, token),
                                                    !.contentParts = captured,
                                                    !.contentCursor = tagEnd]]]
            ELSE [st EXCEPT !.stack = <<>>, !.tokens = Append(@, token)]

\* State.MaybeClose on "}", opening tag
OpenTag(input, strict, i, st, parsed) ==
  IF strict /\ parsed.type \notin AllBlockTypes
  THEN [st EXCEPT !.thrown =
          "Unrecognized GitBook block type: \"" \o parsed.type \o "\" at line "
          \o ToString(LineAt(input, st.markerStart))]
  ELSE IF parsed.type \in AllBlockTypes
  THEN [st EXCEPT !.stack =
          Append(@, [type |-> parsed.type,
                     openStart |-> st.markerStart,
                     contentStart |-> i + 1,
                     startLine |-> LineAt(input, st.markerStart),
                     children |-> <<>>,
                     contentCursor |-> i + 1,
                     contentParts |-> ""])]
  ELSE st

\* tokenize: one turn of the loop, on the character ch at offset i
ScanChar(input, strict, i, ch, st) ==
  CASE st.state = "Text" ->
         IF ch = "{" THEN [st EXCEPT !.markerStart = i, !.state = "MaybeOpen"]
         ELSE st
    [] st.state = "MaybeOpen" ->
         IF ch = "%" THEN [st EXCEPT !.tagBody = "", !.state = "InsideTag"]
         ELSE IF ch = "{" THEN [st EXCEPT !.markerStart = i, !.state = "MaybeOpen"]
         ELSE [st EXCEPT !.state = "Text"]
    [] st.state = "InsideTag" ->
         IF ch = "%" THEN [st EXCEPT !.state = "MaybeClose"]
         ELSE [st EXCEPT !.tagBody = @ \o ch]
    [] st.state = "MaybeClose" ->
         IF ch = "}"
         THEN LET parsed == ParseTagBody(st.tagBody)
                  after == IF parsed.isEnd THEN CloseTag(input, i, st, parsed)
                           ELSE OpenTag(input, strict, i, st, parsed)
              IN  [after EXCEPT !.state = "Text"]
         ELSE [st EXCEPT !.tagBody = @ \o "%" \o ch, !.state = "InsideTag"]

RECURSIVE Scan(_, _, _, _)
\* tokenize: the loop from offset i on; a throw ends it
Scan(input, strict, i, st) ==
  IF i >= Len(input) \/ st.thrown # "" THEN st
  ELSE Scan(input, strict, i + 1, ScanChar(input, strict, i, Char(input, i + 1), st))

\* tokenize: what the call returns or throws
TokenizeResult(input, strict) ==
  LET final == Scan(input, strict, 0, ScanStart)
  IN  IF final.thrown # ""
      THEN [status |-> "threw", tokens |-> <<>>,
            message |-> final.thrown]
      ELSE [status |-> "returned", tokens |-> final.tokens, message |-> ""]

-----------------------------------------------------------------------------
(* tokenize called once on every input of the family below, strict or not. *)

\* most segments of an input
MaxSegments == 3

\* Pieces of markdown: opening and closing tags of known and unknown types,
\* text, a tag closed after a second percent sign, a tag left open, a tag
\* without a type.
Segments ==
  {"{% foo %}", "{% hint %}", "{% endhint %}", "{% endfoo %}", "{% tabs %}",
   "{% endtabs %}", "text\n", "{% foo %%}", "{% hint ", "{%%}"}

RECURSIVE Concat(_)
Concat(pieces) == IF pieces = <<>> THEN "" ELSE Head(pieces) \o Concat(Tail(pieces))

TokInputs == {Concat(ps) : ps \in SeqsUpTo(Segments, MaxSegments)}

InitTokenize ==
  /\ pc = "tokenize"
  /\ tokInput \in TokInputs
  /\ tokStrict \in BOOLEAN
  /\ tokResult = NoTokens
  /\ NavIdle
  /\ AssetIdle
  /\ NormIdle
  /\ FetchIdle
  /\ InvIdle
  /\ CrawlIdle

\* tokenize(input, strict)
Tokenize ==
  /\ pc = "tokenize"
  /\ tokResult' = TokenizeResult(tokInput, tokStrict)
  /\ pc' = "tokenized"
  /\ UNCHANGED <<tokInput, tokStrict, navVars, assetVars, normVars, fetchVars,
                 invVars, crawlVars>>

NextTokenize == Tokenize

SpecTokenize == InitTokenize /\ [][NextTokenize]_vars

\* the offset from `from` on at which sub starts in s, -1 if nowhere
IndexOf(s, sub, from) ==
  LET hits == {i \in from..(Len(s) - Len(sub)) : Slice(s, i, i + Len(sub)) = sub}
  IN  IF hits = {} THEN -1 ELSE CHOOSE i \in hits : \A j \in hits : i <= j

RECURSIVE TagBodiesFrom(_, _)
\* the bodies of the complete tags of s from offset `from` on, left to
\* right: each runs from a {% to the first %} after it
TagBodiesFrom(s, from) ==
  LET open == IndexOf(s, "{%", from)
      close == IF open = -1 THEN -1 ELSE IndexOf(s, "%}", open + 2)
  IN  IF close = -1 THEN <<>>
      ELSE <<Slice(s, open + 2, close)>> \o TagBodiesFrom(s, close + 2)

\* the types of the complete opening tags of s: those whose body does not
\* start with end
OpeningTypes(s) ==
  {ParseTagBody(b).type : b \in {c \in Range(TagBodiesFrom(s, 0)) :
                                   ~ParseTagBody(c).isEnd}}

RECURSIVE TypesOf(_)
\* the types of a token list at every depth
TypesOf(tokens) ==
  IF tokens = <<>> THEN {}
  ELSE {Head(tokens).type} \cup TypesOf(Head(tokens).children)
       \cup TypesOf(Tail(tokens))

\* C17: on an input that contains a complete opening tag of an unknown type,
\* tokenize with strict throws an 'Unrecognized GitBook block type' error;
\* without strict it returns, and no token at any depth has an unknown
\* type.
StrictThrowsOnUnknown ==
  (pc = "tokenized" /\ OpeningTypes(tokInput) \ AllBlockTypes # {}) =>
    IF tokStrict
    THEN /\ tokResult.status = "threw"
         /\ StartsWith(tokResult.message, "Unrecognized GitBook block type")
    ELSE /\ tokResult.status = "returned"
         /\ TypesOf(tokResult.tokens) \subseteq AllBlockTypes

\* the same without the inputs in which a tag is closed after two percent
\* signs
StrictThrowsUnlessDoublePercent ==
  (pc = "tokenized" /\ IndexOf(tokInput, "%%}", 0) = -1) => StrictThrowsOnUnknown

-----------------------------------------------------------------------------
(* fetchWithRetry: one call, the outcome of every fetch chosen freely.  A  *)
(* step runs from one await to the next.  The length of a sleep is not     *)
(* modelled, only that it takes place.                                     *)

\* largest config.maxRetries of a call
MaxRetries == 2

\* statuses a fetch may answer with, on both sides of 429 and of 5xx
Statuses == {200, 404, 429, 499, 500, 599, 600}

\* errors a fetch may reject with
FetchErrors == {"ECONNREFUSED", "ETIMEDOUT"}

\* isRetryableStatus
IsRetryableStatus(status) == status = 429 \/ (status >= 500 /\ status < 600)

InitFetch ==
  /\ pc = "fetch"
  /\ fetchPc = "fetching"
  /\ maxRetries \in 0..MaxRetries
  /\ attempt = 0
  /\ lastError = Undefined
  /\ lastResponse = NoResponse
  /\ fetchResult = NoFetchResult
  /\ outcomes = <<>>
  /\ sleeps = <<>>
  /\ NavIdle
  /\ AssetIdle
  /\ NormIdle
  /\ TokIdle
  /\ InvIdle
  /\ CrawlIdle

\* EndOfTurn sleeping after the last attempt too, and attempting once more
EndOfTurnSleepsAfterLast(error, response) ==
  IF attempt < maxRetries + 1
  THEN /\ fetchPc' = "sleeping"
       /\ sleeps' = Append(sleeps, attempt)
       /\ UNCHANGED <<attempt, fetchResult>>
  ELSE /\ fetchPc' = "done"
       /\ attempt' = attempt + 1
       /\ fetchResult' = IF response # NoResponse
                         THEN [kind |-> "returned", response |-> response]
                         ELSE [kind |-> "threw", error |-> error]
       /\ UNCHANGED sleeps

\* the end of a turn of the loop on a retryable outcome: sleep before the
\* next attempt, or leave the loop and settle (return lastResponse if there
\* is one, throw lastError otherwise); error and response are lastError and
\* lastResponse as the turn leaves them
EndOfTurn(error, response) ==
  IF attempt < maxRetries
  THEN /\ fetchPc' = "sleeping"
       /\ sleeps' = Append(sleeps, attempt)
       /\ UNCHANGED <<attempt, fetchResult>>
  ELSE /\ fetchPc' = "done"
       /\ attempt' = attempt + 1
       /\ fetchResult' = IF response # NoResponse
                         THEN [kind |-> "returned", response |-> response]
                         ELSE [kind |-> "threw", error |-> error]
       /\ UNCHANGED sleeps

\* await fetch(url, options) resolves with a response
FetchResponds ==
  /\ fetchPc = "fetching"
  /\ \E status \in Statuses :
       LET response == [kind |-> "response", status |-> status, attempt |-> attempt]
       IN  /\ outcomes' = Append(outcomes, response)
           /\ IF ~IsRetryableStatus(status)
              THEN /\ fetchResult' = [kind |-> "returned", response |-> response]
                   /\ fetchPc' = "done"
                   /\ UNCHANGED <<attempt, lastResponse, sleeps>>
              ELSE /\ lastResponse' = response
                   /\ EndOfTurn(lastError, response)
  /\ UNCHANGED <<pc, maxRetries, lastError, navVars, assetVars, normVars, tokVars,
                 invVars, crawlVars>>

\* await fetch(url, options) rejects
FetchFails ==
  /\ fetchPc = "fetching"
  /\ \E error \in FetchErrors :
       /\ outcomes' = Append(outcomes, [kind |-> "error", error |-> error])
       /\ lastError' = error
       /\ EndOfTurn(error, lastResponse)
  /\ UNCHANGED <<pc, maxRetries, lastResponse, navVars, assetVars, normVars,
                 tokVars, invVars, crawlVars>>

\* await sleep(delay) resolves: attempt++ and the next turn
Wake ==
  /\ fetchPc = "sleeping"
  /\ attempt' = attempt + 1
  /\ fetchPc' = "fetching"
  /\ UNCHANGED <<pc, maxRetries, lastError, lastResponse, fetchResult, outcomes,
                 sleeps, navVars, assetVars, normVars, tokVars,
                 invVars, crawlVars>>

NextFetch == FetchResponds \/ FetchFails \/ Wake

SpecFetch == InitFetch /\ [][NextFetch]_vars

\* every fetch settles and every sleep ends
SpecFetchLive == SpecFetch /\ WF_vars(NextFetch)

\* the errors among the outcomes so far, in order
ErrorsSoFar == SelectSeq(outcomes, LAMBDA o : o.kind = "error")

\* every attempt was made and none was answered with a non-retryable status
Exhausted ==
  /\ Len(outcomes) = maxRetries + 1
  /\ \A o \in Range(outcomes) :
       o.kind = "response" => IsRetryableStatus(o.status)

\* C18: fetchWithRetry returns a Response only from a fetch whose status is
\* neither 429 nor 5xx, and when all maxRetries + 1 attempts are exhausted it
\* throws the last error encountered.
FetchOutcomeAsDocumented ==
  fetchPc = "done" =>
    /\ fetchResult.kind = "returned" =>
         ~IsRetryableStatus(fetchResult.response.status)
    /\ Exhausted =>
         /\ fetchResult.kind = "threw"
         /\ ErrorsSoFar # <<>> =>
              fetchResult.error = ErrorsSoFar[Len(ErrorsSoFar)].error

\* the attempts are as the loop counts them: no more than maxRetries + 1
\* fetches are made, none after a response whose status is neither 429 nor
\* 5xx, which is returned, and a sleep follows an attempt only when another
\* attempt is left
RetryBounded ==
  /\ Len(outcomes) <= maxRetries + 1
  /\ \A n \in 1..Len(outcomes) :
       (outcomes[n].kind = "response" /\ ~IsRetryableStatus(outcomes[n].status))
       => /\ n = Len(outcomes)
          /\ fetchPc = "done"
          /\ fetchResult = [kind |-> "returned", response |-> outcomes[n]]
  /\ \A n \in 1..Len(sleeps) :
       /\ sleeps[n] = n - 1
       /\ sleeps[n] < maxRetries
       /\ sleeps[n] < Len(outcomes)
  /\ fetchPc = "done" => Len(sleeps) = Len(outcomes) - 1
  /\ fetchPc = "sleeping" => Len(sleeps) = Len(outcomes)
  /\ fetchPc = "fetching" => Len(sleeps) = Len(outcomes)

\* C26: for any sequence of fetch outcomes, fetchWithRetry performs at most
\* maxRetries + 1 fetch calls, returns at once, without further fetch, on the
\* first response whose status is not 429 or 5xx, sleeps only between
\* attempts and never after the last one, and always terminates.
BoundedRetry ==
  /\ []RetryBounded
  /\ [][fetchPc = "done" => (outcomes' = outcomes /\ sleeps' = sleeps)]_vars
  /\ <>(fetchPc = "done")

\* a call that used every attempt: it slept after each but the last
BoundedRetryWitness ==
  /\ fetchPc = "done"
  /\ maxRetries = MaxRetries
  /\ Len(outcomes) = maxRetries + 1
  /\ Len(sleeps) = maxRetries
  /\ \E n \in 1..Len(outcomes) : outcomes[n].kind = "error"
  /\ \E n \in 1..Len(outcomes) : outcomes[n].kind = "response"

-----------------------------------------------------------------------------
(* crawlSite: the fetch loop.  A batch is spliced off the queue, its pages *)
(* are fetched together, and when all have settled their results are       *)
(* processed in order; the links of a fetched page join the queue unless   *)
(* their normalized URL was seen.                                          *)

\* the origin of the crawled site
Origin == "https://d.io"

\* the offset of the first ? or # of a URL, its length when it has none
QueryOrHashOffset(raw) ==
  LET q == IndexOf(raw, "?", 0)
      h == IndexOf(raw, "#", 0)
  IN  IF q = -1 /\ h = -1 THEN Len(raw)
      ELSE IF q = -1 THEN h
      ELSE IF h = -1 THEN q
      ELSE IF q < h THEN q ELSE h

\* new URL(raw).pathname of a URL of the origin
Pathname(raw) ==
  LET path == Slice(raw, Len(Origin), QueryOrHashOffset(raw))
  IN  IF path = "" THEN "/" ELSE path

\* new URL(raw).search is not empty
HasSearch(raw) ==
  /\ IndexOf(raw, "?", 0) # -1
  /\ IndexOf(raw, "?", 0) = QueryOrHashOffset(raw)
  /\ Len(raw) > IndexOf(raw, "?", 0) + 1
  /\ Char(raw, IndexOf(raw, "?", 0) + 2) # "#"

\* new URL(raw).hash is not empty
HasHash(raw) ==
  /\ IndexOf(raw, "#", 0) # -1
  /\ Len(raw) > IndexOf(raw, "#", 0) + 1

\* crawler.ts normalizeUrl: (u.origin + u.pathname).replace(/\/+$/, '')
NormalizeUrl(raw) ==
  IF StartsWith(raw, Origin)
  THEN TrimTrailing(Origin \o Pathname(raw), "/")
  ELSE TrimTrailing(SubSeq(raw, 1, QueryOrHashOffset(raw)), "/")

\* SKIP_PATH_PATTERNS.some((re) => re.test(pathname))
MatchesSkipPattern(pathname) ==
  \/ IndexOf(pathname, "/~gitbook/", 0) # -1
  \/ EndsWith(pathname, "/rss.xml")
  \/ EndsWith(ToLowerCase(pathname), "/readme.md")
  \/ EndsWith(pathname, "/sitemap.xml")
  \/ EndsWith(pathname, "/robots.txt")

\* skipPaths.some((prefix) => pathname === prefix ||
\*                            pathname.startsWith(prefix + '/'))
ShouldSkip(pathname, skipPaths) ==
  \E i \in 1..Len(skipPaths) :
    pathname = skipPaths[i] \/ StartsWith(pathname, skipPaths[i] \o "/")

RECURSIVE DeduplicateUrlsFrom(_, _, _, _)
\* deduplicateUrls: the loop over urls
DeduplicateUrlsFrom(seen, result, urls, skipPaths) ==
  IF urls = <<>> THEN result
  ELSE LET u == Head(urls)
           keep == /\ NormalizeUrl(u) \notin seen
                   /\ ~HasSearch(u)
                   /\ ~ShouldSkip(Pathname(u), skipPaths)
                   /\ ~MatchesSkipPattern(Pathname(u))
                   /\ ~EndsWith(Pathname(u), ".md")
       IN  DeduplicateUrlsFrom(
             IF keep THEN seen \cup {NormalizeUrl(u)} ELSE seen,
             IF keep THEN Append(result, u) ELSE result,
             Tail(urls), skipPaths)

\* crawler.ts deduplicateUrls
DeduplicateUrls(urls, skipPaths) == DeduplicateUrlsFrom({}, <<>>, urls, skipPaths)

\* crawlSite: pageUrls, the root URL put first when no URL normalizes to it
PageUrls(url, allDiscoveredUrls, skipPaths) ==
  LET pageUrls == DeduplicateUrls(allDiscoveredUrls, skipPaths)
  IN  IF \E i \in 1..Len(pageUrls) : NormalizeUrl(pageUrls[i]) = NormalizeUrl(url)
      THEN pageUrls
      ELSE <<url>> \o pageUrls

\* extractInternalLinks: the hrefs of a page that belong to the origin and
\* have neither hash nor search nor a skipped pattern
ExtractInternalLinks(hrefs) ==
  SelectSeq(hrefs,
    LAMBDA abs : /\ StartsWith(abs, Origin)
                 /\ ~HasHash(abs)
                 /\ ~HasSearch(abs)
                 /\ ~MatchesSkipPattern(Pathname(abs)))

\* const concurrency = Math.max(1, options.concurrency)
Concurrency(options) ==
  IF options.concurrency > 1 THEN options.concurrency ELSE 1

\* the only element of a set of one element
TheOnly(S) == CHOOSE x \in S : TRUE

\* AddLink without the test of visited
AddLinkUnseen(st, link, skipPaths) ==
  TheOnly({IF /\ ~EndsWith(pathname, ".md")
              /\ ~MatchesSkipPattern(pathname)
              /\ ~ShouldSkip(pathname, skipPaths)
           THEN [visited |-> SetAdd(st.visited, norm),
                 queue |-> Append(st.queue, link)]
           ELSE st :
             norm \in {NormalizeUrl(link)}, pathname \in {Pathname(link)}})

\* crawlSite: one turn of the loop over newLinks; st is [visited, queue]
AddLink(st, link, skipPaths) ==
  TheOnly({IF /\ ~EndsWith(pathname, ".md")
              /\ ~MatchesSkipPattern(pathname)
              /\ norm \notin Range(st.visited)
              /\ ~ShouldSkip(pathname, skipPaths)
           THEN [visited |-> Append(st.visited, norm),
                 queue |-> Append(st.queue, link)]
           ELSE st :
             norm \in {NormalizeUrl(link)}, pathname \in {Pathname(link)}})

RECURSIVE AddLinks(_, _, _)
\* crawlSite: the loop over newLinks (what a turn computes is bound as a
\* value, so that it is computed once)
AddLinks(st, newLinks, skipPaths) ==
  IF newLinks = <<>> THEN st
  ELSE TheOnly({AddLinks(TheOnly({AddLink(st, link, skipPaths) : link \in {Head(newLinks)}}),
                         rest, skipPaths) :
                  rest \in {Tail(newLinks)}})

\* the hrefs in the html of the page fetched at url: the targets of the
\* edges of the site that leave the page
HrefsOf(url, edges) ==
  LET from == SelectSeq(edges, LAMBDA e : e.from = NormalizeUrl(url))
  IN  [i \in 1..Len(from) |-> from[i].to]

\* crawlSite: one turn of the loop over results; st is [visited, queue,
\* pages, errors]
ProcessResult(st, url, result, edges, skipPaths) ==
  IF result = "fulfilled"
  THEN TheOnly({[visited |-> added.visited,
                 queue |-> added.queue,
                 pages |-> Append(st.pages, url),
                 errors |-> st.errors] :
                  added \in UNION {{AddLinks([visited |-> st.visited,
                                              queue |-> st.queue],
                                             newLinks, skipPaths)} :
                                     newLinks \in {ExtractInternalLinks(
                                                     HrefsOf(url, edges))}}})
  ELSE [st EXCEPT !.errors = Append(st.errors, url)]

RECURSIVE ProcessResultsFrom(_, _, _, _, _)
\* crawlSite: the loop over results
ProcessResultsFrom(st, urls, results, edges, skipPaths) ==
  IF urls = <<>> THEN st
  ELSE TheOnly({ProcessResultsFrom(
                  TheOnly({ProcessResult(st, url, Head(results), edges, skipPaths) :
                             url \in {Head(urls)}}),
                  Tail(urls), Tail(results), edges, skipPaths)})

\* most edges of a site
MaxLinks == 2

\* largest options.concurrency
MaxConcurrency == 2

\* the hrefs a site may hold, each with the normalized URL of its page: two
\* spellings of one page, a cycle back to the root, a skipped prefix, a .md
\* link, a link with a hash and a link to another origin
SiteEdges ==
  <<[from |-> "https://d.io", to |-> "https://d.io/a"],
    [from |-> "https://d.io", to |-> "https://d.io/a/"],
    [from |-> "https://d.io", to |-> "https://d.io/api/x"],
    [from |-> "https://d.io/a", to |-> "https://d.io/b"],
    [from |-> "https://d.io/a", to |-> "https://d.io/guide.md"],
    [from |-> "https://d.io/a", to |-> "https://d.io/b#top"],
    [from |-> "https://d.io/b", to |-> "https://d.io/"],
    [from |-> "https://d.io/b", to |-> "https://d.io/a/"],
    [from |-> "https://d.io/b", to |-> "https://other.io/x"]>>

\* the sites: MaxLinks edges at most, in the order of SiteEdges
Sites ==
  {SelectSeq(SiteEdges, LAMBDA e : e \in chosen) :
     chosen \in {c \in SUBSET Range(SiteEdges) : Cardinality(c) <= MaxLinks}}

\* the URLs found in the sidebar and the body of the root page
DiscoveredUrlLists ==
  {<<>>,
   <<"https://d.io/a">>,
   <<"https://d.io/a", "https://d.io/a/">>,
   <<"https://d.io/b", "https://d.io/a#intro">>,
   <<"https://d.io/guide.md", "https://d.io/api/x", "https://d.io/a?x=1",
     "https://d.io/b">>}

CrawlSkipPaths == <<"/api">>

InitCrawl ==
  /\ pc = "crawl"
  /\ crawlPc = "loop"
  /\ crawlOptions \in [concurrency : 0..MaxConcurrency, skipPaths : {CrawlSkipPaths}]
  /\ site \in Sites
  /\ \E discovered \in DiscoveredUrlLists :
       /\ queue = PageUrls(Origin, discovered, CrawlSkipPaths)
       /\ visited = [i \in 1..Len(queue) |-> NormalizeUrl(queue[i])]
  /\ batch = <<>>
  /\ settled = <<>>
  /\ fetchedUrls = <<>>
  /\ crawledPages = <<>>
  /\ crawlErrors = <<>>
  /\ AssetIdle
  /\ NavIdle
  /\ NormIdle
  /\ TokIdle
  /\ FetchIdle
  /\ InvIdle

otherVars == <<pc, navVars, assetVars, normVars, tokVars, fetchVars, invVars>>

\* const batch = queue.splice(0, concurrency), and the fetches start
TakeBatch ==
  /\ crawlPc = "loop"
  /\ queue # <<>>
  /\ batch' = SubSeq(queue, 1, IF Concurrency(crawlOptions) < Len(queue)
                                THEN Concurrency(crawlOptions) ELSE Len(queue))
  /\ queue' = SubSeq(queue, Len(batch') + 1, Len(queue))
  /\ settled' = [i \in 1..Len(batch') |-> "pending"]
  /\ fetchedUrls' = fetchedUrls \o batch'
  /\ crawlPc' = "fetching"
  /\ UNCHANGED <<crawlOptions, site, visited, crawledPages, crawlErrors, otherVars>>

\* one fetchPage of the batch settles, fulfilled or rejected
FetchSettles ==
  /\ crawlPc = "fetching"
  /\ \E i \in 1..Len(batch), outcome \in {"fulfilled", "rejected"} :
       /\ settled[i] = "pending"
       /\ settled' = [settled EXCEPT ![i] = outcome]
  /\ UNCHANGED <<crawlPc, crawlOptions, site, visited, queue, batch, fetchedUrls,
                 crawledPages, crawlErrors, otherVars>>

\* Promise.allSettled resolves: the loop over results
ProcessResults ==
  /\ crawlPc = "fetching"
  /\ \A i \in 1..Len(batch) : settled[i] # "pending"
  /\ \E st \in {ProcessResultsFrom(
                   [visited |-> visited, queue |-> queue, pages |-> crawledPages,
                    errors |-> crawlErrors],
                   batch, settled, site, crawlOptions.skipPaths)} :
         /\ visited' = st.visited
         /\ queue' = st.queue
         /\ crawledPages' = st.pages
         /\ crawlErrors' = st.errors
  /\ batch' = <<>>
  /\ settled' = <<>>
  /\ crawlPc' = "loop"
  /\ UNCHANGED <<crawlOptions, site, fetchedUrls, otherVars>>

\* while (queue.length > 0) ends
CrawlComplete ==
  /\ crawlPc = "loop"
  /\ queue = <<>>
  /\ crawlPc' = "done"
  /\ UNCHANGED <<crawlOptions, site, visited, queue, batch, settled, fetchedUrls,
                 crawledPages, crawlErrors, otherVars>>

NextCrawl == TakeBatch \/ FetchSettles \/ ProcessResults \/ CrawlComplete

SpecCrawl == InitCrawl /\ [][NextCrawl]_vars

\* every fetchPage settles (page.goto has a timeout) and the loop goes on
SpecCrawlLive == SpecCrawl /\ WF_vars(NextCrawl)

\* the URLs that entered the queue, in the order they did
Enqueued == fetchedUrls \o queue

\* no two URLs that entered the queue normalize to the same value, and every
\* batch holds Math.max(1, options.concurrency) URLs at most
QueueVisitsOnce ==
  /\ \A i, j \in 1..Len(Enqueued) :
       NormalizeUrl(Enqueued[i]) = NormalizeUrl(Enqueued[j]) => i = j
  /\ \A i \in 1..Len(Enqueued) : NormalizeUrl(Enqueued[i]) \in Range(visited)
  /\ Len(batch) <= Concurrency(crawlOptions)
  /\ Len(crawledPages) + Len(crawlErrors) + Len(batch) = Len(fetchedUrls)

\* C30: in the fetch loop of crawlSite, for any link graph, no two fetched
\* URLs normalize to the same value (a normalized URL enters the queue once
\* at most), a batch holds at most concurrency pages, concurrency being the
\* loop's Math.max(1, options.concurrency), and the loop terminates.
CrawlVisitsOnce ==
  /\ []QueueVisitsOnce
  /\ <>(crawlPc = "done")

\* a crawl of concurrency 2 that ended after it fetched three pages and left
\* out a link to a page it knew under another spelling
CrawlVisitsOnceWitness ==
  /\ crawlPc = "done"
  /\ Len(crawledPages) >= 3
  /\ \E e \in Range(site) :
       /\ e.from \in {NormalizeUrl(u) : u \in Range(crawledPages)}
       /\ e.to \notin Range(fetchedUrls)
       /\ NormalizeUrl(e.to) \in {NormalizeUrl(u) : u \in Range(fetchedUrls)}
  /\ crawlOptions.concurrency = 2
  /\ Len(site) = MaxLinks

====
